---------------------------- MODULE Spec2Model ----------------------------
(***************************************************************************)
(* Ledger & query engine of Fatture-fornitori: the persistence gateway of  *)
(* src/services/storage.ts over the two tables "suppliers" and "invoices", *)
(* the export / import protocol, the balance functions and the enrichment  *)
(* of src/unnamed/part_001 (App).                                          *)
(*                                                                         *)
(* Monetary amounts are JavaScript numbers in the source; they are         *)
(* modelled as integers (cents).                                           *)
(***************************************************************************)
EXTENDS Integers, Sequences, FiniteSets, TLC

VARIABLES
    dbSuppliers,   \* rows of table "suppliers"
    dbInvoices,    \* rows of table "invoices"
    op,            \* the gateway operation in progress, "none" when idle
    pc,            \* its position (the await it is suspended at)
    data,          \* importDatabase: the parsed document (const data)
    file,          \* the backup document written by the last export
    done,          \* the last completed operation: name, argument, result
    log,           \* gateway calls issued by the current / last operation
    expSnap,       \* table contents when the export that wrote `file` began
    before,        \* table contents when the last single write was issued
    calcInvoice,   \* balance engine: the invoice under calculation
    calcBalance,   \* balance engine: last calculateInvoiceBalance result
    calcInitial,   \* balance engine: last getInvoiceInitialAmount result
    calcPrev,      \* balance engine: results before the last editor save
    suppliers,     \* App state: useState<Supplier[]>
    invoices,      \* App state: useState<Invoice[]>
    enriched,      \* App: result of the last getEnrichedInvoices()
    filters,       \* tab state: search, month, year, dateFrom, dateTo, onlyMerch
    timeZone,      \* the browser's time zone
    view,          \* what the last rendered tab computed
    session,       \* App state: useState<Session | null>
    isLoading,     \* App state: useState(false)
    tasks,         \* async handlers of the App suspended at an await
    selectedSupplierId, \* App state: the supplier of the detail tab
    editingInvoice,     \* App state: { isOpen, supplierId, invoice }
    modalRows,     \* InvoiceModal state: const [rows, setRows]
    refreshed,     \* how the reads of the last completed refresh came back
    clicks,        \* user actions and auth events so far
    tabs,          \* two browser tabs: the form each edits and its save
    applied        \* the tabs whose upsert the database has applied, in order

storeVars  == <<dbSuppliers, dbInvoices, op, pc, data, file, done, log, expSnap, before>>
calcVars   == <<calcInvoice, calcBalance, calcInitial, calcPrev>>
viewVars   == <<filters, timeZone, view>>
enrichVars == <<suppliers, invoices, enriched, viewVars>>
gatewayVars == <<op, pc, data, file, done, log, expSnap, before>>
tabVars    == <<tabs, applied>>
appVars    == <<session, isLoading, tasks, selectedSupplierId, editingInvoice, modalRows, refreshed,
               clicks, tabVars>>
vars       == <<storeVars, calcVars, enrichVars, appVars>>

---------------------------------------------------------------------------
(* Bounds and input domains                                                *)

\* MaxRows:     longest row list drawn for the balance engine
\* MaxAmount:   largest credit / debit drawn for the balance engine
\* MaxPayments: payment rows an editor save appends to a drawn invoice
\* MaxDocLen:   longest suppliers / invoices array of a candidate document
\* MaxMemLen:   longest in-memory supplier / invoice list drawn for enrichment
\* MaxViewLen:  longest in-memory invoice list drawn for the tabs

MaxRows == 2
MaxAmount == 2
MaxPayments == 1
MaxDocLen == 2
MaxMemLen == 2
MaxViewLen == 2

\* The id deleteAllSuppliers compares with (storage.ts:77-78).
ZeroUuid    == "00000000-0000-0000-0000-000000000000"
\* Ids the database generates for a row saved without one.
GeneratedSupplierIds == {"s1", "s2"}
GeneratedInvoiceIds  == {"i1", "i2"}
\* Ids a caller or a document can name.
SupplierIds == GeneratedSupplierIds \cup {ZeroUuid}
InvoiceIds  == GeneratedInvoiceIds
\* Field values saveSupplier is called with (iban, email, phone and notes are
\* free text stored and returned like name).
SupplierInputs == {[name |-> "acme", is_merchandise |-> FALSE],
                   [name |-> "bolt", is_merchandise |-> TRUE]}
Timestamps  == {"2024-01-10T09:00:00Z", "2024-02-20T09:00:00Z"}
\* An absent id / creation_date of a payload (undefined).
Undefined   == "undefined"

\* A credit / debit as stored in the jsonb rows: a number, or a numeric
\* string (form input saved without conversion).
Num(n) == [t |-> "number", n |-> n]
Str(n) == [t |-> "string", n |-> n]

\* A ledger row (types.ts InvoiceRow); description and protocol are free text
\* no operation of the core reads.
Row(id, date, credit, debit) ==
    [id |-> id, date |-> date, credit |-> credit, debit |-> debit]

\* jsonb column "rows": kind "array" carries the rows; "missing" is
\* null / undefined; "object" is a value that is truthy and not an array.
RowsArray(rs) == [kind |-> "array", items |-> rs]
RowsMissing   == [kind |-> "missing", items |-> << >>]
RowsObject    == [kind |-> "object", items |-> << >>]

\* The row list of the invoices the store model saves and imports (the
\* balance engine and the enrichment draw their own).
ChargeOnly  == RowsArray(<<Row("r1", "2024-01-10", Num(100), Num(0))>>)
Settled     == RowsArray(<<Row("r1", "2024-01-10", Num(100), Num(0)),
                           Row("r2", "2024-02-20", Num(0), Num(100))>>)
RowLists    == {ChargeOnly}

Supplier(id, name, merch) == [id |-> id, name |-> name, is_merchandise |-> merch]
Invoice(id, sid, cdate, rows) ==
    [id |-> id, supplier_id |-> sid, creation_date |-> cdate, rows |-> rows]

Ids(table) == {r.id : r \in table}
Range(seq) == {seq[k] : k \in DOMAIN seq}

---------------------------------------------------------------------------
(* The database behind the supabase client                                 *)

\* Primary key "id": an INSERT of `items` into `table` is rejected when two
\* rows would share an id.
PrimaryKeyOk(table, items) ==
    /\ \A k \in DOMAIN items : items[k].id \notin Ids(table)
    /\ \A j, k \in DOMAIN items : j # k => items[j].id # items[k].id

\* Foreign key invoices.supplier_id -> suppliers.id (storage.ts:139-142).
ForeignKeyOk(items, sups) ==
    \A k \in DOMAIN items : items[k].supplier_id \in Ids(sups)

\* ... ON DELETE CASCADE (storage.ts:64-65, :76): the invoices left once
\* the suppliers `gone` are deleted.
NoCascade(invs, gone) == invs
OnDeleteCascade(invs, gone) == {i \in invs : i.supplier_id \notin gone}

\* upsert(payload): insert, or overwrite the whole row with that id.
\* A slip: a row whose id is taken is left as it is (ignoreDuplicates).
Upsert_ignoreDuplicates(table, rec) ==
    IF rec.id \in Ids(table) THEN table ELSE table \cup {rec}
\* A slip: the columns name / rows of a row that exists are left as they are.
Upsert_patch(table, rec) ==
    IF rec.id \in Ids(table)
    THEN {r \in table : r.id # rec.id} \cup
         {[f \in DOMAIN rec |-> IF f \in {"name", "rows"} THEN old[f] ELSE rec[f]] :
             old \in {r \in table : r.id = rec.id}}
    ELSE table \cup {rec}
Upsert(table, rec) == {r \in table : r.id # rec.id} \cup {rec}

\* The record of a completed operation.
Done(name, id, ret) == [op |-> name, id |-> id, ret |-> ret]
\* One gateway call and whether it came back without `error`.
Call(name, ok) == [call |-> name, ok |-> ok]
\* Table contents.
Store == [suppliers |-> dbSuppliers, invoices |-> dbInvoices]
NoStore == [suppliers |-> {}, invoices |-> {}]

\* A field of a parsed document: an array, absent, or some other value.
ArrayField(items) == [kind |-> "array", items |-> items]
MissingField      == [kind |-> "missing", items |-> << >>]
ObjectField       == [kind |-> "object", items |-> << >>]
\* A document as JSON text: parse "error" is text JSON.parse rejects, "null"
\* is the text null, "ok" is an object with the two fields.
Doc(parse, sups, invs) == [parse |-> parse, suppliers |-> sups, invoices |-> invs]
NoDoc == Doc("none", MissingField, MissingField)

\* No operation in progress and no backup waiting to be restored: the
\* backup of an export is restored or discarded before anything else, so
\* that the round trip is that of the document as exported.
Idle == op = "none" /\ file = NoDoc

---------------------------------------------------------------------------
(* Write functions (storage.ts:44-112)                                     *)

\* saveSupplier(supplier): upsert; the database generates the id of a
\* payload that has none. Returns the row, or null on error.
saveSupplier_upsert(id, inp, ok) ==
    /\ Idle
    /\ \E rid \in (IF id = Undefined
                   THEN GeneratedSupplierIds \ Ids(dbSuppliers) ELSE {id}) :
        /\ dbSuppliers' = IF ok THEN Upsert(dbSuppliers, Supplier(rid, inp.name, inp.is_merchandise))
                                ELSE dbSuppliers
        /\ done' = Done("saveSupplier", rid, IF ok THEN "row" ELSE "null")
        /\ log' = <<Call("upsertSupplier", ok)>>
    /\ data' = NoDoc
    /\ expSnap' = NoStore
    /\ before' = Store
    /\ UNCHANGED <<dbInvoices, op, pc, file, calcVars, enrichVars, appVars>>
saveSupplier ==
    \E id \in SupplierIds \cup {Undefined}, inp \in SupplierInputs, ok \in BOOLEAN :
        saveSupplier_upsert(id, inp, ok)

\* deleteSupplier(id): delete ... eq('id', id); the error is only logged.
deleteSupplier ==
    /\ Idle
    /\ \E id \in SupplierIds, ok \in BOOLEAN :
        /\ dbSuppliers' = IF ok THEN {s \in dbSuppliers : s.id # id} ELSE dbSuppliers
        /\ dbInvoices' = IF ok THEN OnDeleteCascade(dbInvoices, {id}) ELSE dbInvoices
        /\ done' = Done("deleteSupplier", id, "void")
        /\ log' = <<Call("deleteSupplier", ok)>>
    /\ data' = NoDoc
    /\ expSnap' = NoStore
    /\ before' = Store
    /\ UNCHANGED <<op, pc, file, calcVars, enrichVars, appVars>>

\* What the editor hands to saveInvoice (part_002:177-182): no id and no
\* creation_date for a new invoice; for an existing one the id, supplier and
\* creation_date of the in-memory copy it was opened with, which are those
\* of the stored invoice unless that one has been deleted since.
handleSave(id, sid, cdate) ==
    \/ id = Undefined /\ cdate = Undefined
    \/ /\ id # Undefined /\ cdate # Undefined
       /\ \A i \in dbInvoices :
             i.id = id => (i.creation_date = cdate /\ i.supplier_id = sid)

\* A slip: the date of the save, whatever the invoice carries.
payload_creation_date_now(cdate, now) == now
\* creation_date: invoice.creation_date || new Date().toISOString()
payload_creation_date(cdate, now) == IF cdate = Undefined THEN now ELSE cdate

\* saveInvoice(invoice): creation_date defaults to now, a falsy id is
\* removed from the payload, then upsert. Returns the row, or null on error.
saveInvoice ==
    /\ Idle
    /\ \E id \in InvoiceIds \cup {Undefined}, sid \in GeneratedSupplierIds,
          cdate \in Timestamps \cup {Undefined}, rows \in RowLists,
          now \in Timestamps, ok \in BOOLEAN :
        /\ handleSave(id, sid, cdate)
        /\ \E rid \in (IF id = Undefined
                     THEN GeneratedInvoiceIds \ Ids(dbInvoices) ELSE {id}) :
            LET payload == Invoice(rid, sid, payload_creation_date(cdate, now), rows)
                stored  == ok /\ ForeignKeyOk(<<payload>>, dbSuppliers)
            IN  /\ dbInvoices' = IF stored THEN Upsert(dbInvoices, payload) ELSE dbInvoices
                /\ done' = Done("saveInvoice", rid, IF stored THEN "row" ELSE "null")
                /\ log' = <<Call("upsertInvoice", stored)>>
    /\ data' = NoDoc
    /\ expSnap' = NoStore
    /\ before' = Store
    /\ UNCHANGED <<dbSuppliers, op, pc, file, calcVars, enrichVars, appVars>>

\* A slip: the filter on supplier_id, every invoice of that supplier goes.
delete_eq_supplier(table, id) ==
    {i \in table : \A d \in table : d.id = id => i.supplier_id # d.supplier_id}
\* from('invoices').delete().eq('id', id): the rows left.
delete_eq_id(table, id) == {i \in table : i.id # id}

\* deleteInvoice(id): delete ... eq('id', id); the error is only logged.
deleteInvoice ==
    /\ Idle
    /\ \E id \in InvoiceIds, ok \in BOOLEAN :
        /\ dbInvoices' = IF ok THEN delete_eq_id(dbInvoices, id) ELSE dbInvoices
        /\ done' = Done("deleteInvoice", id, "void")
        /\ log' = <<Call("deleteInvoice", ok)>>
    /\ data' = NoDoc
    /\ expSnap' = NoStore
    /\ before' = Store
    /\ UNCHANGED <<dbSuppliers, op, pc, file, calcVars, enrichVars, appVars>>

\* deleteAllSuppliers, first await: delete from invoices where id <> ZeroUuid.
\* Its result, error included, is dropped. Entered from the full wipe of the
\* App (part_001:187-195) or from importDatabase.
deleteAllSuppliers_invoices ==
    /\ \/ Idle /\ op' = "deleteAllSuppliers"
       \/ op = "importDatabase" /\ pc = "deleteAllSuppliers" /\ op' = op
    /\ \E ok \in BOOLEAN :
        /\ dbInvoices' = IF ok THEN {i \in dbInvoices : i.id = ZeroUuid} ELSE dbInvoices
        /\ log' = (IF op = "none" THEN << >> ELSE log) \o <<Call("deleteInvoices", ok)>>
    /\ pc' = "deleteSuppliers"
    /\ done' = Done("none", "", "void")
    /\ data' = IF op = "none" THEN NoDoc ELSE data
    /\ expSnap' = IF op = "none" THEN NoStore ELSE expSnap
    /\ before' = NoStore
    /\ UNCHANGED <<dbSuppliers, file, calcVars, enrichVars, appVars>>

\* deleteAllSuppliers, second await: delete from suppliers where id <>
\* ZeroUuid (the invoices of a deleted supplier go with it); then it returns.
deleteAllSuppliers_suppliers ==
    /\ pc = "deleteSuppliers"
    /\ \E ok \in BOOLEAN :
        /\ dbSuppliers' = IF ok THEN {r \in dbSuppliers : r.id = ZeroUuid} ELSE dbSuppliers
        /\ dbInvoices' = IF ok THEN OnDeleteCascade(dbInvoices, Ids(dbSuppliers) \ {ZeroUuid})
                               ELSE dbInvoices
        /\ log' = Append(log, Call("deleteSuppliers", ok))
    /\ IF op = "deleteAllSuppliers"
       THEN /\ op' = "none"
            /\ pc' = "idle"
            /\ done' = Done("deleteAllSuppliers", "", "void")
       ELSE /\ pc' = "insertSuppliers"
            /\ UNCHANGED <<op, done>>
    /\ UNCHANGED <<data, file, expSnap, before, calcVars, enrichVars, appVars>>

---------------------------------------------------------------------------
(* Backup & restore (storage.ts:114-164)                                   *)

NameRank(name) == CASE name = "acme" -> 1 [] name = "bolt" -> 2 [] OTHER -> 3
\* The enumerations of a table a select can return.
Orderings(table) ==
    {q \in [1..Cardinality(table) -> table] : Range(q) = table}
\* .order('name', { ascending: true })
OrderedByName(q) == \A j, k \in DOMAIN q : j < k => NameRank(q[j].name) <= NameRank(q[k].name)

\* getSuppliers(): every supplier ordered by name, or [] on error.
getSuppliers(ok) ==
    IF ok THEN {q \in Orderings(dbSuppliers) : OrderedByName(q)} ELSE {<< >>}
\* getInvoices(): every invoice in no particular order, or [] on error.
getInvoices(ok) ==
    IF ok THEN Orderings(dbInvoices) ELSE {<< >>}

\* exportDatabase, first await (const suppliers = await getSuppliers()).
exportDatabase_getSuppliers ==
    /\ Idle
    /\ \E ok \in BOOLEAN : \E q \in getSuppliers(ok) :
        /\ data' = Doc("partial", ArrayField(q), MissingField)
        /\ log' = <<Call("getSuppliers", ok)>>
    /\ op' = "exportDatabase"
    /\ pc' = "getInvoices"
    /\ done' = Done("none", "", "void")
    /\ expSnap' = Store
    /\ before' = NoStore
    /\ UNCHANGED <<dbSuppliers, dbInvoices, file, calcVars, enrichVars, appVars>>

\* exportDatabase, second await, and the document handleExportData writes
\* with JSON.stringify (part_001:198-211); timestamp and version are fields
\* importDatabase never reads.
exportDatabase_getInvoices ==
    /\ op = "exportDatabase" /\ pc = "getInvoices"
    /\ \E ok \in BOOLEAN : \E q \in getInvoices(ok) :
        /\ file' = Doc("ok", data.suppliers, ArrayField(q))
        /\ log' = Append(log, Call("getInvoices", ok))
    /\ op' = "none"
    /\ pc' = "idle"
    /\ data' = NoDoc
    /\ done' = Done("exportDatabase", "", "document")
    /\ before' = NoStore
    /\ UNCHANGED <<dbSuppliers, dbInvoices, expSnap, calcVars, enrichVars, appVars>>

\* The user restores nothing from the backup just written
\* (handleFileChange with no file chosen).
discardBackup ==
    /\ op = "none" /\ file # NoDoc
    /\ file' = NoDoc
    /\ data' = NoDoc
    /\ expSnap' = NoStore
    /\ before' = NoStore
    /\ UNCHANGED <<dbSuppliers, dbInvoices, op, pc, done, log, calcVars, enrichVars, appVars>>

\* Candidate documents handed to importDatabase besides a backup.
DocSupplierRecs == {Supplier("s1", "bolt", TRUE)}
DocInvoiceRecs  == {Invoice("i1", "s1", "2024-02-20T09:00:00Z", ChargeOnly)}
SeqsUpTo(S, n)  == UNION {[1..k -> S] : k \in 0..n}
ValidDocs ==
    {Doc("ok", ArrayField(a), ArrayField(b)) :
        a \in SeqsUpTo(DocSupplierRecs, MaxDocLen), b \in SeqsUpTo(DocInvoiceRecs, MaxDocLen)}
InvalidDocs ==
    {Doc("error", MissingField, MissingField),
     Doc("null", MissingField, MissingField),
     Doc("ok", MissingField, ArrayField(<< >>)),
     Doc("ok", ArrayField(<< >>), MissingField),
     Doc("ok", ObjectField, ArrayField(<< >>)),
     Doc("ok", ArrayField(<<Supplier("s1", "bolt", TRUE)>>), ObjectField)}
CandidateDocs == ValidDocs \cup InvalidDocs

\* JSON.parse(jsonData) returned and both fields are arrays
\* (storage.ts:130-134); anything else throws inside the try.
Validated_suppliersOnly(doc) ==
    /\ doc.parse = "ok"
    /\ doc.suppliers.kind = "array"
Validated(doc) ==
    /\ doc.parse = "ok"
    /\ doc.suppliers.kind = "array"
    /\ doc.invoices.kind = "array"

\* Where the document of the import came from.
Source == IF file = NoDoc THEN "candidate" ELSE "backup"

\* return true / the catch block's return false.
importDatabase_return(ret) ==
    /\ op' = "none"
    /\ pc' = "idle"
    /\ file' = NoDoc
    /\ done' = Done("importDatabase", Source, ret)

\* importDatabase(jsonData) up to its first await: parse and validate.
\* `data` keeps the document as parsed (NoDoc when JSON.parse threw).
importDatabase_parse(doc) ==
    /\ op = "none"
    /\ IF Validated(doc)
       THEN /\ op' = "importDatabase"
            /\ pc' = "deleteAllSuppliers"
            /\ done' = Done("none", "", "void")
            /\ file' = file
       ELSE importDatabase_return("false")
    /\ data' = IF doc.parse = "ok" THEN doc ELSE NoDoc
    /\ log' = << >>
    /\ expSnap' = IF file = NoDoc THEN NoStore ELSE expSnap
    /\ before' = NoStore
    /\ UNCHANGED <<dbSuppliers, dbInvoices, calcVars, enrichVars, appVars>>

\* handleFileChange (part_001:219-241): the user restores the backup just
\* written or, with none pending, some candidate document.
importDatabase_start ==
    \E doc \in (IF file = NoDoc THEN CandidateDocs ELSE {file}) :
        importDatabase_parse(doc)

\* insert(data.suppliers), skipped for an empty array; an error is thrown.
importDatabase_insertSuppliers ==
    /\ op = "importDatabase" /\ pc = "insertSuppliers"
    /\ LET items == data.suppliers.items
       IN  IF Len(items) = 0
           THEN /\ pc' = "insertInvoices"
                /\ UNCHANGED <<dbSuppliers, op, file, done, log>>
           ELSE \E ok \in BOOLEAN :
                LET inserted == ok /\ PrimaryKeyOk(dbSuppliers, items)
                IN  /\ log' = Append(log, Call("insertSuppliers", inserted))
                    /\ IF inserted
                       THEN /\ dbSuppliers' = dbSuppliers \cup Range(items)
                            /\ pc' = "insertInvoices"
                            /\ UNCHANGED <<op, file, done>>
                       ELSE /\ importDatabase_return("false")
                            /\ UNCHANGED dbSuppliers
    /\ UNCHANGED <<dbInvoices, data, expSnap, before, calcVars, enrichVars, appVars>>

\* insert(data.invoices), skipped for an empty array; then return true.
importDatabase_insertInvoices ==
    /\ op = "importDatabase" /\ pc = "insertInvoices"
    /\ LET items == data.invoices.items
       IN  IF Len(items) = 0
           THEN /\ importDatabase_return("true")
                /\ UNCHANGED <<dbInvoices, log>>
           ELSE \E ok \in BOOLEAN :
                LET inserted == /\ ok
                                /\ PrimaryKeyOk(dbInvoices, items)
                                /\ ForeignKeyOk(items, dbSuppliers)
                IN  /\ log' = Append(log, Call("insertInvoices", inserted))
                    /\ dbInvoices' = IF inserted THEN dbInvoices \cup Range(items)
                                                 ELSE dbInvoices
                    /\ importDatabase_return(IF inserted THEN "true" ELSE "false")
    /\ UNCHANGED <<dbSuppliers, data, expSnap, before, calcVars, enrichVars, appVars>>

---------------------------------------------------------------------------
(* Export / import and store properties                                    *)

\* importDatabase has returned `ret` and nothing has started since.
ImportReturned(ret) ==
    op = "none" /\ done.op = "importDatabase" /\ done.ret = ret
\* The gateway calls the last operation issued, by name.
Issued(name) == \E k \in DOMAIN log : log[k].call = name
Failed(name) == \E k \in DOMAIN log : log[k].call = name /\ ~log[k].ok
\* Both deletes of deleteAllSuppliers came back without error.
WipeSucceeded ==
    /\ \E k \in DOMAIN log : log[k].call = "deleteInvoices" /\ log[k].ok
    /\ \E k \in DOMAIN log : log[k].call = "deleteSuppliers" /\ log[k].ok

\* C1: round trip. Once importDatabase has returned true for the document
\* the preceding exportDatabase produced, both tables hold exactly what they
\* held when the export began. (The claim promises this of every round
\* trip; it is stated here for the ones that report success.)
C1_RoundTrip ==
    (ImportReturned("true") /\ done.id = "backup") => Store = expSnap

\* C2: once importDatabase has returned true for document D, the tables hold
\* exactly D.suppliers and D.invoices.
C2_ImportExact ==
    ImportReturned("true") =>
        /\ dbSuppliers = Range(data.suppliers.items)
        /\ dbInvoices = Range(data.invoices.items)

\* C3: importDatabase of a document that does not parse, or whose suppliers
\* or invoices is not an array, returns false at once: both tables are
\* unchanged and no gateway call is issued; and importDatabase is never
\* suspended at a gateway call with such a document.
C3_InvalidImportNoEffect ==
    /\ [](op = "importDatabase" => data \notin InvalidDocs)
    /\ [][\A doc \in InvalidDocs :
            importDatabase_parse(doc) =>
                /\ op' = "none"
                /\ done' = Done("importDatabase", "candidate", "false")
                /\ dbSuppliers' = dbSuppliers
                /\ dbInvoices' = dbInvoices
                /\ log' = << >>]_vars
\* A document whose invoices field is an object, refused on a filled store.
C3_Witness ==
    /\ ImportReturned("false")
    /\ log = << >>
    /\ data.parse = "ok" /\ data.invoices.kind = "object"
    /\ dbSuppliers # {} /\ dbInvoices # {}

\* C4: importDatabase returns true only if every gateway call it issued,
\* the two deletes of deleteAllSuppliers included, came back without error.
C4_TrueOnlyIfEveryStep ==
    ImportReturned("true") => \A k \in DOMAIN log : log[k].ok

\* C5: when both deletes of the wipe succeeded and an insert failed,
\* importDatabase returns false; after a failed supplier insert both tables
\* are empty and no invoice insert was issued; after a failed invoice insert
\* the table holds the imported suppliers and no invoice.
C5_NoRollback ==
    (op = "none" /\ done.op = "importDatabase" /\ WipeSucceeded) =>
        /\ Failed("insertSuppliers") =>
            /\ done.ret = "false"
            /\ dbSuppliers = {} /\ dbInvoices = {}
            /\ ~Issued("insertInvoices")
        /\ Failed("insertInvoices") =>
            /\ done.ret = "false"
            /\ dbSuppliers = Range(data.suppliers.items)
            /\ dbInvoices = {}

\* C6: once deleteSupplier(id) has completed, no stored invoice has
\* supplier_id = id and no stored supplier has that id.
C6_Cascade ==
    (op = "none" /\ done.op = "deleteSupplier") =>
        /\ done.id \notin Ids(dbSuppliers)
        /\ \A i \in dbInvoices : i.supplier_id # done.id

\* C7: referential integrity. In every reachable state, the states between
\* the awaits of deleteAllSuppliers and importDatabase included, every
\* stored invoice's supplier_id is the id of a stored supplier.
C7_ReferentialIntegrity ==
    \A i \in dbInvoices : i.supplier_id \in Ids(dbSuppliers)
\* deleteAllSuppliers between its two deletes, the invoices still there.
C7_Witness ==
    /\ pc = "deleteSuppliers"
    /\ dbInvoices # {}
    /\ Cardinality(dbSuppliers) = 2

\* The last completed operation is `name` and nothing has started since;
\* `before` then holds the tables as the operation found them.
Completed(name) == op = "none" /\ done.op = name

\* C17: deleteInvoice(id) removes at most the invoice with that id: every
\* supplier and every other invoice, those of the same supplier included,
\* is as before.
C17_DeleteInvoiceFrame ==
    Completed("deleteInvoice") =>
        /\ dbSuppliers = before.suppliers
        /\ dbInvoices \subseteq before.invoices
        /\ \A i \in before.invoices : i.id # done.id => i \in dbInvoices
\* One of two invoices of a supplier deleted, the other still stored.
C17_Witness ==
    /\ Completed("deleteInvoice")
    /\ done.id \notin Ids(dbInvoices)
    /\ \E d \in before.invoices, i \in dbInvoices :
          d.id = done.id /\ i.supplier_id = d.supplier_id

\* C18: once deleteAllSuppliers has completed, the store holds no supplier
\* and no invoice.
C18_DeleteAllEmpties ==
    Completed("deleteAllSuppliers") => (dbSuppliers = {} /\ dbInvoices = {})

\* C19: a saveSupplier that succeeds with no id adds exactly one supplier,
\* under an id no supplier had, carrying the supplied fields; with the id of
\* a stored supplier it replaces that record by the supplied fields and
\* leaves the number of suppliers as it was; either way every other
\* supplier and every invoice is unchanged. One that fails changes nothing.
C19_SaveSupplier ==
    [][\A id \in SupplierIds \cup {Undefined}, inp \in SupplierInputs, ok \in BOOLEAN :
          saveSupplier_upsert(id, inp, ok) =>
              /\ dbInvoices' = dbInvoices
              /\ ~ok => dbSuppliers' = dbSuppliers
              /\ ok =>
                  /\ Supplier(done'.id, inp.name, inp.is_merchandise) \in dbSuppliers'
                  /\ \A r \in dbSuppliers' : r.id = done'.id =>
                        r = Supplier(done'.id, inp.name, inp.is_merchandise)
                  /\ {r \in dbSuppliers' : r.id # done'.id}
                        = {r \in dbSuppliers : r.id # done'.id}
                  /\ id = Undefined =>
                        /\ done'.id \notin Ids(dbSuppliers)
                        /\ Cardinality(dbSuppliers') = Cardinality(dbSuppliers) + 1
                  /\ id \in Ids(dbSuppliers) =>
                        /\ done'.id = id
                        /\ Cardinality(dbSuppliers') = Cardinality(dbSuppliers)]_vars
\* A stored supplier overwritten with other fields next to one left alone.
C19_Witness ==
    /\ Completed("saveSupplier") /\ done.ret = "row"
    /\ Cardinality(before.suppliers) = 2
    /\ Cardinality(dbSuppliers) = 2
    /\ \E b \in before.suppliers, r \in dbSuppliers :
          b.id = done.id /\ r.id = done.id /\ r.name # b.name

\* C20: a stored invoice always carries a creation_date, and no step changes
\* the creation_date of an invoice that stays stored: editor updates keep
\* the value of the first save.
C20_CreationDate ==
    /\ [](\A i \in dbInvoices : i.creation_date \in Timestamps)
    /\ [][\A i \in dbInvoices : \A j \in dbInvoices' :
            j.id = i.id => j.creation_date = i.creation_date]_vars
\* An editor update of a stored invoice, its creation_date as before.
C20_Witness ==
    /\ Completed("saveInvoice") /\ done.ret = "row"
    /\ \E b \in before.invoices, i \in dbInvoices :
          /\ b.id = done.id /\ i.id = done.id
          /\ i.creation_date = b.creation_date
          /\ i.creation_date = "2024-01-10T09:00:00Z"

\* What a gateway write returns when it reports a failure.
FailureOutcomes == {"null", "false", "error"}

\* C22: a gateway write whose call to the database failed returns a failure
\* outcome, not the outcome of a success.
C22_FailureDistinct ==
    (/\ op = "none"
     /\ done.op \in {"saveSupplier", "saveInvoice", "deleteSupplier",
                     "deleteInvoice", "deleteAllSuppliers"}
     /\ \E k \in DOMAIN log : ~log[k].ok)
        => done.ret \in FailureOutcomes

---------------------------------------------------------------------------
(* Balance engine (storage.ts:32-42)                                       *)

\* Number(v) of a number or a numeric string.
Number(v) == v.n

\* invoice.rows.reduce((acc, row) => acc + (Number(row.credit) -
\* Number(row.debit)), 0): left to right from acc = 0.
RECURSIVE reduceBalance(_, _, _)
reduceBalance(items, k, acc) ==
    IF k > Len(items) THEN acc
    ELSE reduceBalance(items, k + 1,
                       acc + (Number(items[k].credit) - Number(items[k].debit)))

\* A slip: credits and debits both added.
calculateInvoiceBalance_creditsOnly(invoice) ==
    IF invoice.rows.kind # "array" THEN 0
    ELSE reduceBalance([k \in DOMAIN invoice.rows.items |->
                          [invoice.rows.items[k] EXCEPT !.debit = Num(0)]], 1, 0)
\* if (!invoice.rows || !Array.isArray(invoice.rows)) return 0; else reduce.
calculateInvoiceBalance(invoice) ==
    IF invoice.rows.kind # "array" THEN 0
    ELSE reduceBalance(invoice.rows.items, 1, 0)

\* invoice.rows is truthy, has no length 0 and no element 0:
\* invoice.rows[0].credit throws a TypeError.
getInvoiceInitialAmount_throws(invoice) == invoice.rows.kind = "object"

\* A slip: the last row instead of the first.
getInvoiceInitialAmount_lastRow(invoice) ==
    IF invoice.rows.kind = "missing" \/ Len(invoice.rows.items) = 0 THEN 0
    ELSE Number(invoice.rows.items[Len(invoice.rows.items)].credit)
\* if (!invoice.rows || invoice.rows.length === 0) return 0;
\* return Number(invoice.rows[0].credit)   (where it does not throw)
getInvoiceInitialAmount(invoice) ==
    IF invoice.rows.kind = "missing" \/ Len(invoice.rows.items) = 0 THEN 0
    ELSE Number(invoice.rows.items[1].credit)

\* Inputs of the balance engine.
Amounts     == {Num(n) : n \in 0..MaxAmount} \cup {Str(MaxAmount)}
CalcRows    == {Row("r", "2024-01-10", c, d) : c \in Amounts, d \in Amounts}
CalcInvoices ==
    {Invoice("i1", "s1", "2024-01-10T09:00:00Z", rows) :
        rows \in {RowsArray(q) : q \in SeqsUpTo(CalcRows, MaxRows)}
                   \cup {RowsMissing, RowsObject}}

Calc(phase, balance, initial, payments, debit) ==
    [phase |-> phase, balance |-> balance, initial |-> initial,
     payments |-> payments, debit |-> debit]

\* The App computes both for an invoice it renders (part_001:139-140).
calculate ==
    /\ calcPrev.phase = "loaded"
    /\ calcBalance' = calculateInvoiceBalance(calcInvoice)
    /\ IF getInvoiceInitialAmount_throws(calcInvoice)
       THEN /\ calcInitial' = calcInitial
            /\ calcPrev' = [calcPrev EXCEPT !.phase = "threw"]
       ELSE /\ calcInitial' = getInvoiceInitialAmount(calcInvoice)
            /\ calcPrev' = [calcPrev EXCEPT !.phase = "calculated"]
    /\ UNCHANGED <<calcInvoice, storeVars, enrichVars, appVars>>

\* An editor save of the invoice that keeps its rows and appends one payment
\* row (part_002 addRow, handleRowChange on debit, handleSave's cleanRows);
\* the saved invoice is rendered again. calcPrev keeps the results before.
appendPayment ==
    /\ calcPrev.phase = "calculated"
    /\ calcPrev.payments < MaxPayments
    /\ calcInvoice.rows.kind = "array"
    /\ Len(calcInvoice.rows.items) >= 1
    /\ \E d \in 1..MaxAmount :
        LET cleanRows == [k \in DOMAIN calcInvoice.rows.items |->
                            [calcInvoice.rows.items[k] EXCEPT
                                !.credit = Num(Number(@)), !.debit = Num(Number(@))]]
            saved == [calcInvoice EXCEPT !.rows =
                        RowsArray(Append(cleanRows, Row("p", "2024-02-20", Num(0), Num(d))))]
        IN  /\ calcInvoice' = saved
            /\ calcBalance' = calculateInvoiceBalance(saved)
            /\ calcInitial' = getInvoiceInitialAmount(saved)
            /\ calcPrev' = Calc("calculated", calcBalance, calcInitial,
                                calcPrev.payments + 1, d)
    /\ UNCHANGED <<storeVars, enrichVars, appVars>>

\* Sum of the credits, of the debits, from the last row backwards.
RECURSIVE SumOf(_, _)
SumOf(items, field) ==
    IF Len(items) = 0 THEN 0
    ELSE items[Len(items)][field].n + SumOf(SubSeq(items, 1, Len(items) - 1), field)

\* C9: calculateInvoiceBalance returns the sum over all rows of
\* (credit - debit), and 0 when rows is empty, missing or not a sequence.
C9_BalanceIsSum ==
    calcPrev.phase \in {"calculated", "threw"} =>
        /\ calcInvoice.rows.kind = "array" =>
              calcBalance = SumOf(calcInvoice.rows.items, "credit")
                            - SumOf(calcInvoice.rows.items, "debit")
        /\ calcInvoice.rows.kind # "array" => calcBalance = 0
        /\ calcInvoice.rows = RowsArray(<< >>) => calcBalance = 0
\* Two rows, a charge of MaxAmount part paid, balance computed.
C9_Witness ==
    /\ calcPrev.phase = "calculated"
    /\ calcInvoice.rows.kind = "array"
    /\ Len(calcInvoice.rows.items) = 2
    /\ calcInvoice.rows.items[1].credit = Str(MaxAmount)
    /\ calcInvoice.rows.items[2].debit = Num(1)
    /\ calcBalance = MaxAmount - 1

\* C10: getInvoiceInitialAmount returns the credit of the first row, and 0
\* when there are no rows; an editor save that appends a payment row changes
\* the balance by that payment and leaves the initial amount as it was.
C10_InitialAmount ==
    calcPrev.phase = "calculated" =>
        /\ (calcInvoice.rows.kind = "array" /\ Len(calcInvoice.rows.items) >= 1) =>
              calcInitial = calcInvoice.rows.items[1].credit.n
        /\ (calcInvoice.rows.kind = "array" /\ Len(calcInvoice.rows.items) = 0) =>
              calcInitial = 0
        /\ calcInvoice.rows.kind = "missing" => calcInitial = 0
        /\ calcPrev.payments > 0 =>
              /\ calcInitial = calcPrev.initial
              /\ calcBalance = calcPrev.balance - calcPrev.debit
              /\ calcBalance # calcPrev.balance
\* A payment appended to an invoice whose first row charges MaxAmount.
C10_Witness ==
    /\ calcPrev.phase = "calculated"
    /\ calcPrev.payments = 1
    /\ Len(calcInvoice.rows.items) = 3
    /\ calcInitial = MaxAmount
    /\ calcBalance < calcPrev.balance

---------------------------------------------------------------------------
(* Enrichment and the views computed from it (part_001)                    *)

Enriched(status, list) == [status |-> status, list |-> list]

\* suppliers.find(s => s.id === inv.supplier_id): the first match, if any.
find(sups, sid) ==
    IF \E k \in DOMAIN sups : sups[k].id = sid
    THEN LET k == CHOOSE j \in DOMAIN sups :
                    /\ sups[j].id = sid
                    /\ \A m \in DOMAIN sups : sups[m].id = sid => j <= m
         IN  <<sups[k]>>
    ELSE << >>

\* { ...inv, supplier, balance, initialAmount }
EnrichedInvoice(inv, supplier) ==
    [id |-> inv.id, supplier_id |-> inv.supplier_id,
     creation_date |-> inv.creation_date, rows |-> inv.rows,
     supplier |-> supplier,
     balance |-> calculateInvoiceBalance(inv),
     initialAmount |-> getInvoiceInitialAmount(inv)]

\* invoices.map(...).filter(i => i !== null), left to right.
RECURSIVE mapFilter(_, _, _, _)
mapFilter(invs, sups, k, acc) ==
    IF k > Len(invs) THEN acc
    ELSE LET found == find(sups, invs[k].supplier_id)
         IN  mapFilter(invs, sups, k + 1,
                       IF found = << >> THEN acc
                       ELSE Append(acc, EnrichedInvoice(invs[k], found[1])))

\* A slip: an unresolved invoice kept with a placeholder supplier.
getEnrichedInvoices_keepUnresolved(invs, sups) ==
    [k \in DOMAIN invs |->
        EnrichedInvoice(invs[k],
            IF find(sups, invs[k].supplier_id) = << >>
            THEN Supplier(invs[k].supplier_id, "", FALSE)
            ELSE find(sups, invs[k].supplier_id)[1])]
\* getEnrichedInvoices() where no callback throws.
getEnrichedInvoices(invs, sups) == mapFilter(invs, sups, 1, << >>)

\* The map callback throws on a resolved invoice whose rows make
\* getInvoiceInitialAmount throw; an unresolved one returns null before.
getEnrichedInvoices_throws(invs, sups) ==
    \E k \in DOMAIN invs :
        /\ find(sups, invs[k].supplier_id) # << >>
        /\ getInvoiceInitialAmount_throws(invs[k])

\* A render of the App: const enrichedInvoices = getEnrichedInvoices().
render ==
    /\ enriched.status = "stale"
    /\ enriched' = IF getEnrichedInvoices_throws(invoices, suppliers)
                   THEN Enriched("threw", << >>)
                   ELSE Enriched("ok", getEnrichedInvoices(invoices, suppliers))
    /\ UNCHANGED <<suppliers, invoices, viewVars, storeVars, calcVars, appVars>>

---------------------------------------------------------------------------
(* Dates, filters and sort of the dashboard and history tabs (part_001)    *)

\* The date strings of the model as year, month, day; << >> for a string
\* that is no ISO date ('' of a cleared date input, undefined).
ParseIso(str) ==
    CASE str = "2023-12-15" -> <<2023, 12, 15>>
      [] str = "2024-01-01" -> <<2024, 1, 1>>
      [] str = "2024-01-10" -> <<2024, 1, 10>>
      [] str = "2024-01-20" -> <<2024, 1, 20>>
      [] str = "2024-02-20" -> <<2024, 2, 20>>
      [] OTHER -> << >>

\* Browsers east and west of Greenwich.
TimeZones == {"Europe/Rome", "America/New_York"}

\* inv.rows[0]?.date
firstRowDate(inv) ==
    IF Len(inv.rows.items) = 0 THEN Undefined ELSE inv.rows.items[1].date

\* new Date(str): a date-only ISO string is midnight UTC of that day; the
\* getters getMonth / getFullYear answer in local time, which west of
\* Greenwich is still the evening of the day before.
LocalYearMonth(str, tz) ==
    LET ymd == ParseIso(str)
    IN  IF tz = "Europe/Rome" \/ ymd[3] > 1 THEN <<ymd[1], ymd[2]>>
        ELSE IF ymd[2] > 1 THEN <<ymd[1], ymd[2] - 1>>
        ELSE <<ymd[1] - 1, 12>>
MonthStrings == <<"1", "2", "3", "4", "5", "6", "7", "8", "9", "10", "11", "12">>
YearString(y) ==
    CASE y = 2023 -> "2023" [] y = 2024 -> "2024" [] OTHER -> "other"
\* (d.getMonth() + 1).toString(), "NaN" of an Invalid Date
getMonth(str, tz) ==
    IF ParseIso(str) = << >> THEN "NaN" ELSE MonthStrings[LocalYearMonth(str, tz)[2]]
\* d.getFullYear().toString()
getFullYear(str, tz) ==
    IF ParseIso(str) = << >> THEN "NaN" ELSE YearString(LocalYearMonth(str, tz)[1])
\* new Date(str).getTime(), in days; of a valid date only.
getTime(str) ==
    LET ymd == ParseIso(str) IN ymd[1] * 372 + ymd[2] * 31 + ymd[3]

\* a < b of two strings that are '' or ISO dates; a comparison with
\* undefined is false.
StringLess(a, b) ==
    /\ a # Undefined /\ b # Undefined
    /\ b # ""
    /\ a = "" \/ getTime(a) < getTime(b)

\* name.toLowerCase().includes(search.toLowerCase())
toLowerCase(str) ==
    CASE str = "AC" -> "ac" [] str = "Bolt" -> "bolt" [] OTHER -> str
Substrings(str) ==
    CASE str = "acme" -> {"", "a", "c", "m", "e", "ac", "cm", "me", "acm", "cme", "acme"}
      [] str = "bolt" -> {"", "b", "o", "l", "t", "bo", "ol", "lt", "bol", "olt", "bolt"}
      [] OTHER -> {"", str}
includes(str, part) == part \in Substrings(str)

Filters(search, month, year, dateFrom, dateTo, onlyMerch) ==
    [search |-> search, month |-> month, year |-> year,
     dateFrom |-> dateFrom, dateTo |-> dateTo, onlyMerch |-> onlyMerch]
\* useState('') five times, useState(false)
NoFilters == Filters("", "", "", "", "", FALSE)

\* The predicate of applyFilters (part_001:499-509); '' is falsy.
applyFilters_keep(i) ==
    /\ ~(filters.search # ""
         /\ ~includes(toLowerCase(i.supplier.name), toLowerCase(filters.search)))
    /\ ~(filters.month # "" /\ getMonth(firstRowDate(i), timeZone) # filters.month)
    /\ ~(filters.year # "" /\ getFullYear(firstRowDate(i), timeZone) # filters.year)
    /\ ~(filters.dateFrom # "" /\ StringLess(firstRowDate(i), filters.dateFrom))
    /\ ~(filters.dateTo # "" /\ StringLess(filters.dateTo, firstRowDate(i)))
\* A slip: the first match is lost (an offset of one).
applyFilters_offByOne(invList) ==
    LET kept == SelectSeq(invList, applyFilters_keep)
    IN  IF Len(kept) = 0 THEN kept ELSE Tail(kept)
applyFilters(invList) == SelectSeq(invList, applyFilters_keep)

\* The predicate of the history filter (part_001:775-785).
historyFilter_keep(i) ==
    /\ i.balance = 0
    /\ ~(filters.onlyMerch /\ ~i.supplier.is_merchandise)
    /\ applyFilters_keep(i)
historyFilter(invList) == SelectSeq(invList, historyFilter_keep)

\* Array.prototype.sort with (a, b) => getTime(a) - getTime(b), or b - a
\* when descending. It is stable; a NaN difference counts as 0. With an
\* Invalid Date among two different valid dates the comparator is not
\* consistent and the order is whatever the engine yields.
ValidAt(list) == {k \in DOMAIN list : ParseIso(firstRowDate(list[k])) # << >>}
Consistent(list) ==
    \/ ValidAt(list) = DOMAIN list
    \/ \A j, k \in ValidAt(list) :
          getTime(firstRowDate(list[j])) = getTime(firstRowDate(list[k]))
Before(list, j, k, ascending) ==
    LET tj == getTime(firstRowDate(list[j]))
        tk == getTime(firstRowDate(list[k]))
    IN  \/ IF ascending THEN tj < tk ELSE tj > tk
        \/ tj = tk /\ j < k
StableSort(list, ascending) ==
    IF ValidAt(list) # DOMAIN list THEN list
    ELSE [r \in DOMAIN list |->
            list[CHOOSE k \in DOMAIN list :
                    Cardinality({j \in DOMAIN list : Before(list, j, k, ascending)}) = r - 1]]
Reorderings(list) ==
    {[r \in DOMAIN list |-> list[p[r]]] :
        p \in {q \in [DOMAIN list -> DOMAIN list] : Range(q) = DOMAIN list}}
sort(list, ascending) ==
    IF Consistent(list) THEN {StableSort(list, ascending)} ELSE Reorderings(list)

\* reduce((a, b) => a + b.balance, 0), reduce((a, b) => a + b.initialAmount, 0)
\* A slip: the last member left out.
RECURSIVE reduceField_skipLast(_, _, _, _)
reduceField_skipLast(list, field, k, acc) ==
    IF k >= Len(list) THEN acc
    ELSE reduceField_skipLast(list, field, k + 1, acc + list[k][field])
RECURSIVE reduceField(_, _, _, _)
reduceField(list, field, k, acc) ==
    IF k > Len(list) THEN acc
    ELSE reduceField(list, field, k + 1, acc + list[k][field])

\* What each view selects from enrichedInvoices before its optional filters
\* and its sort, which only remove and reorder entries.
\* SupplierDetailTab (part_001:379-380).
supplierInvoices(selectedId) ==
    LET keep(i) == i.supplier_id = selectedId /\ i.balance # 0
    IN  SelectSeq(enriched.list, keep)
\* ActiveInvoicesTab (part_001:512-515).
activeInvoices ==
    LET keep(i) == i.balance # 0 IN SelectSeq(enriched.list, keep)
merchandiseInvoices ==
    LET keep(i) == i.supplier.is_merchandise IN SelectSeq(activeInvoices, keep)
\* A slip: the sign of the balance not looked at.
toPayInvoices_anySign ==
    LET keep(i) == ~i.supplier.is_merchandise IN SelectSeq(activeInvoices, keep)
toPayInvoices ==
    LET keep(i) == ~i.supplier.is_merchandise /\ i.balance > 0
    IN  SelectSeq(activeInvoices, keep)
\* HistoryTab (part_001:774-786), before its sort.
historyInvoices == historyFilter(enriched.list)

\* What a tab computed: the buckets and totals of ActiveInvoicesTab, the
\* list and total of HistoryTab.
View(tab, status, merch, toPay, sumMerch, sumPay, history, totalSettled) ==
    [tab |-> tab, status |-> status,
     merchandiseInvoices |-> merch, toPayInvoices |-> toPay,
     sumMerch |-> sumMerch, sumPay |-> sumPay,
     historyInvoices |-> history, totalSettled |-> totalSettled]
NoView == View("none", "ok", << >>, << >>, 0, 0, << >>, 0)

\* const years = ... enrichedInvoices.map(i => new Date(i.rows[0]?.date)...):
\* i.rows[0] of rows that are null throws, in either tab.
years_throws == \E k \in DOMAIN enriched.list : enriched.list[k].rows.kind = "missing"

\* A render of ActiveInvoicesTab (part_001:487-522).
ActiveInvoicesTab ==
    /\ enriched.status = "ok"
    /\ view.tab = "none"
    /\ IF years_throws
       THEN view' = View("active", "threw", << >>, << >>, 0, 0, << >>, 0)
       ELSE \E merch \in sort(applyFilters(merchandiseInvoices), TRUE) :
            \E toPay \in sort(applyFilters(toPayInvoices), TRUE) :
                view' = View("active", "ok", merch, toPay,
                             reduceField(merch, "balance", 1, 0),
                             reduceField(toPay, "balance", 1, 0),
                             << >>, 0)
    /\ UNCHANGED <<suppliers, invoices, enriched, filters, timeZone, storeVars, calcVars, appVars>>

\* A render of HistoryTab (part_001:764-788).
HistoryTab ==
    /\ enriched.status = "ok"
    /\ view.tab = "none"
    /\ IF years_throws
       THEN view' = View("history", "threw", << >>, << >>, 0, 0, << >>, 0)
       ELSE \E history \in sort(historyInvoices, FALSE) :
                view' = View("history", "ok", << >>, << >>, 0, 0, history,
                             reduceField(history, "initialAmount", 1, 0))
    /\ UNCHANGED <<suppliers, invoices, enriched, filters, timeZone, storeVars, calcVars, appVars>>

\* What the dashboard shows and prints of its buckets: the payable-services
\* section and its total only when onlyMerch is off (part_001:610, 634, 737).
shownMerchandise == view.merchandiseInvoices
\* A slip: the section rendered whatever the checkbox.
shownToPay_always == view.toPayInvoices
shownToPay == IF filters.onlyMerch THEN << >> ELSE view.toPayInvoices
printedTotal == view.sumMerch + (IF filters.onlyMerch THEN 0 ELSE view.sumPay)

\* Lists and filter states drawn for the tabs: two suppliers, invoices of
\* both with a positive, zero and negative balance, first-row dates on the
\* first of a month, in the month before, later, and cleared.
ViewSuppliers == <<Supplier("s1", "acme", FALSE), Supplier("s2", "bolt", TRUE)>>
ViewInvoice(id, sid, date, paid) ==
    Invoice(id, sid, "2024-01-10T09:00:00Z",
            IF paid = 0 THEN RowsArray(<<Row("r1", date, Num(100), Num(0))>>)
            ELSE RowsArray(<<Row("r1", date, Num(100), Num(0)),
                             Row("r2", "2024-02-20", Num(0), Num(paid))>>))
ViewInvoices ==
    {ViewInvoice("v1", "s1", "2024-01-01", 0),
     ViewInvoice("v2", "s1", "2024-01-20", 0),
     ViewInvoice("v3", "s1", "", 0),
     ViewInvoice("v4", "s1", "2023-12-15", 150),
     ViewInvoice("v5", "s1", "2024-01-20", 100),
     ViewInvoice("v6", "s2", "2023-12-15", 0),
     ViewInvoice("v7", "s2", "2024-01-20", 150),
     ViewInvoice("v8", "s2", "2024-01-01", 100),
     ViewInvoice("v9", "s2", "2023-12-15", 100),
     Invoice("v10", "s1", "2024-01-10T09:00:00Z", RowsMissing)}
ViewFilters ==
    {Filters(search, month, year, dateFrom, dateTo, onlyMerch) :
        search \in {"", "AC"}, month \in {"", "1"}, year \in {"", "2024"},
        dateFrom \in {"", "2024-01-01"}, dateTo \in {"", "2024-01-01"},
        onlyMerch \in BOOLEAN}

\* In-memory lists the App can hold: suppliers as getSuppliers returned them
\* (distinct ids, ordered by name), invoices as getInvoices returned them
\* (distinct ids, any order); the two reads are independent, so an invoice
\* may name a supplier the list lacks.
MemSupplierIds == {"s1", "s2"}
MemInvoiceIds  == {"i1", "i2", "i3"}
MemSuppliers ==
    {Supplier(id, inp.name, inp.is_merchandise) :
        id \in MemSupplierIds, inp \in SupplierInputs}
MemInvoices ==
    {Invoice(id, sid, "2024-01-10T09:00:00Z", rows) :
        id \in MemInvoiceIds, sid \in MemSupplierIds,
        rows \in {ChargeOnly, Settled, RowsObject}}
DistinctIds(q) == \A j, k \in DOMAIN q : j # k => q[j].id # q[k].id

\* The invoices at positions 1..k whose supplier is in the list.
ResolvedUpTo(k) ==
    {m \in 1..k : \E n \in DOMAIN suppliers : suppliers[n].id = invoices[m].supplier_id}
ViewEntries ==
    Range(activeInvoices) \cup Range(merchandiseInvoices) \cup Range(toPayInvoices)
    \cup Range(historyInvoices)
    \cup UNION {Range(supplierInvoices(sel)) : sel \in MemSupplierIds}

\* C8: enrichment yields exactly one entry for each invoice whose supplier_id
\* matches an in-memory supplier, in the original relative order, with that
\* supplier attached; an unresolved invoice is dropped, never raises an
\* error, and never appears in the dashboard, history or supplier-detail view.
C8_Enrichment ==
    /\ enriched.status = "ok" =>
          /\ Len(enriched.list) = Cardinality(ResolvedUpTo(Len(invoices)))
          /\ \A k \in ResolvedUpTo(Len(invoices)) :
                LET e == enriched.list[Cardinality(ResolvedUpTo(k))]
                IN  /\ e.id = invoices[k].id
                    /\ e.rows = invoices[k].rows
                    /\ e.supplier.id = invoices[k].supplier_id
                    /\ e.supplier \in Range(suppliers)
          /\ \A e \in ViewEntries : e.supplier_id \in Ids(Range(suppliers))
    /\ enriched.status = "threw" =>
          \E k \in ResolvedUpTo(Len(invoices)) : invoices[k].rows.kind = "object"
\* An unresolved invoice with unusable rows between two resolved ones.
C8_Witness ==
    /\ enriched.status = "ok"
    /\ Len(invoices) = 2
    /\ Len(enriched.list) = 1
    /\ enriched.list[1].id = invoices[2].id
    /\ invoices[1].rows.kind = "object"
    /\ Len(historyInvoices) = 1

---------------------------------------------------------------------------
(* Properties of the dashboard and history tabs                            *)

\* The dashboard has computed its buckets.
DashboardReady == view.tab = "active" /\ view.status = "ok"
\* The history tab has computed its list.
HistoryReady == view.tab = "history" /\ view.status = "ok"
InBucket(e, bucket) == \E k \in DOMAIN bucket : bucket[k].id = e.id

\* C11: with no filter set the merchandise bucket and the payable-services
\* bucket are disjoint; an open invoice is in the merchandise bucket iff its
\* supplier is merchandise, whatever the sign of its balance, in the
\* payable-services bucket iff its supplier is not merchandise and its
\* balance is positive, and in neither iff its supplier is not merchandise
\* and its balance is negative.
C11_Classification ==
    (DashboardReady /\ filters = NoFilters) =>
        /\ \A e \in Range(enriched.list) :
              ~(InBucket(e, view.merchandiseInvoices) /\ InBucket(e, view.toPayInvoices))
        /\ \A e \in Range(enriched.list) : e.balance # 0 =>
              /\ InBucket(e, view.merchandiseInvoices) <=> e.supplier.is_merchandise
              /\ InBucket(e, view.toPayInvoices) <=>
                    (~e.supplier.is_merchandise /\ e.balance > 0)
              /\ (~InBucket(e, view.merchandiseInvoices)
                  /\ ~InBucket(e, view.toPayInvoices)) <=>
                    (~e.supplier.is_merchandise /\ e.balance < 0)
\* An overpaid merchandise invoice in its bucket, an overpaid services
\* invoice in neither.
C11_Witness ==
    /\ DashboardReady /\ filters = NoFilters
    /\ Len(view.merchandiseInvoices) = 1
    /\ view.merchandiseInvoices[1].balance < 0
    /\ Len(view.toPayInvoices) = 0
    /\ \E e \in Range(enriched.list) : ~e.supplier.is_merchandise /\ e.balance < 0

\* The filter predicates as section 4.4 of the specification states them:
\* the month and the year are those of the first row's date as written,
\* the date bounds are inclusive and compare the date strings.
CalendarMonth(e) ==
    IF ParseIso(firstRowDate(e)) = << >> THEN "none"
    ELSE MonthStrings[ParseIso(firstRowDate(e))[2]]
CalendarYear(e) ==
    IF ParseIso(firstRowDate(e)) = << >> THEN "none"
    ELSE YearString(ParseIso(firstRowDate(e))[1])
Satisfies(e) ==
    /\ filters.search = ""
       \/ includes(toLowerCase(e.supplier.name), toLowerCase(filters.search))
    /\ filters.month = "" \/ CalendarMonth(e) = filters.month
    /\ filters.year = "" \/ CalendarYear(e) = filters.year
    /\ filters.dateFrom = "" \/ ~StringLess(firstRowDate(e), filters.dateFrom)
    /\ filters.dateTo = "" \/ ~StringLess(filters.dateTo, firstRowDate(e))
\* The entries with a valid first-row date follow each other by date.
OrderedByDate(list, ascending) ==
    \A j, k \in ValidAt(list) : j < k =>
        IF ascending
        THEN getTime(firstRowDate(list[j])) <= getTime(firstRowDate(list[k]))
        ELSE getTime(firstRowDate(list[j])) >= getTime(firstRowDate(list[k]))

\* C12: dashboard mode. Each bucket holds only open invoices; an open
\* invoice of a bucket's class is in the bucket iff it satisfies every set
\* predicate among search, month, year, dateFrom and dateTo; each bucket is
\* ordered ascending by first-row date.
C12_Dashboard ==
    DashboardReady =>
        /\ \A e \in Range(view.merchandiseInvoices) \cup Range(view.toPayInvoices) :
              e.balance # 0
        /\ \A e \in Range(enriched.list) :
              /\ (e.balance # 0 /\ e.supplier.is_merchandise) =>
                    (InBucket(e, view.merchandiseInvoices) <=> Satisfies(e))
              /\ (e.balance > 0 /\ ~e.supplier.is_merchandise) =>
                    (InBucket(e, view.toPayInvoices) <=> Satisfies(e))
        /\ OrderedByDate(view.merchandiseInvoices, TRUE)
        /\ OrderedByDate(view.toPayInvoices, TRUE)

\* C13: history mode. The result holds exactly the enriched invoices with
\* balance 0 that satisfy every set predicate among search, onlyMerchandise,
\* month, year, dateFrom and dateTo, ordered descending by first-row date;
\* no invoice with a non-zero balance is in the history and no settled
\* invoice is in a dashboard bucket.
C13_History ==
    /\ HistoryReady =>
          /\ \A e \in Range(enriched.list) :
                InBucket(e, view.historyInvoices) <=>
                    /\ e.balance = 0
                    /\ filters.onlyMerch => e.supplier.is_merchandise
                    /\ Satisfies(e)
          /\ \A e \in Range(view.historyInvoices) : e.balance = 0
          /\ OrderedByDate(view.historyInvoices, FALSE)
    /\ DashboardReady =>
          \A e \in Range(view.merchandiseInvoices) \cup Range(view.toPayInvoices) :
              e.balance # 0

\* The sum of a field over the members of a list, from the last backwards.
RECURSIVE Total(_, _)
Total(list, field) ==
    IF Len(list) = 0 THEN 0
    ELSE list[Len(list)][field] + Total(SubSeq(list, 1, Len(list) - 1), field)

\* C14 as claimed: with onlyMerch set in dashboard mode every invoice of
\* every computed bucket, merchandise and payable-services, and so every
\* amount summed into a total, belongs to a merchandise supplier.
C14_OnlyMerchComputed ==
    (DashboardReady /\ filters.onlyMerch) =>
        \A e \in Range(view.merchandiseInvoices) \cup Range(view.toPayInvoices) :
            e.supplier.is_merchandise
\* C14 as amended: with onlyMerch set in dashboard mode every invoice shown
\* or printed belongs to a merchandise supplier and the printed grand total
\* is the sum of the balances of the shown merchandise invoices; the
\* payable-services section is hidden and its total left out.
C14_OnlyMerchShown ==
    (DashboardReady /\ filters.onlyMerch) =>
        /\ \A e \in Range(shownMerchandise) \cup Range(shownToPay) :
              e.supplier.is_merchandise
        /\ printedTotal = Total(shownMerchandise, "balance")
\* onlyMerch set while the payable-services bucket has a member.
C14_Witness ==
    /\ DashboardReady /\ filters.onlyMerch
    /\ Len(view.merchandiseInvoices) = 1
    /\ Len(view.toPayInvoices) = 1
    /\ view.sumPay > 0
    /\ printedTotal = view.sumMerch

\* C15: filter idempotence. Applying the filter of a tab to what the tab
\* computed, or twice to the enriched list, yields the same list, members
\* and order, as applying it once.
C15_FilterIdempotent ==
    /\ DashboardReady =>
          /\ applyFilters(view.merchandiseInvoices) = view.merchandiseInvoices
          /\ applyFilters(view.toPayInvoices) = view.toPayInvoices
    /\ HistoryReady =>
          historyFilter(view.historyInvoices) = view.historyInvoices
    /\ enriched.status = "ok" =>
          /\ applyFilters(applyFilters(enriched.list)) = applyFilters(enriched.list)
          /\ historyFilter(historyFilter(enriched.list)) = historyFilter(enriched.list)
\* A date bound that removed one of two payable invoices.
C15_Witness ==
    /\ DashboardReady
    /\ filters.dateTo # ""
    /\ Len(toPayInvoices) = 2
    /\ Len(view.toPayInvoices) = 1

\* C16: each displayed total is the sum over exactly the members of its
\* filtered bucket, of balance in dashboard mode and of initialAmount in
\* history mode; the total of an empty bucket is 0.
C16_Totals ==
    /\ DashboardReady =>
          /\ view.sumMerch = Total(view.merchandiseInvoices, "balance")
          /\ view.sumPay = Total(view.toPayInvoices, "balance")
          /\ view.merchandiseInvoices = << >> => view.sumMerch = 0
          /\ view.toPayInvoices = << >> => view.sumPay = 0
    /\ HistoryReady =>
          /\ view.totalSettled = Total(view.historyInvoices, "initialAmount")
          /\ view.historyInvoices = << >> => view.totalSettled = 0
\* A merchandise bucket of an open and an overpaid invoice.
C16_Witness ==
    /\ DashboardReady
    /\ Len(view.merchandiseInvoices) = 2
    /\ view.sumMerch = 50
    /\ view.toPayInvoices = << >>
    /\ view.sumPay = 0

---------------------------------------------------------------------------
(* The App component (part_001:60-249): session, loading flag, in-memory   *)
(* lists and the async handlers, each suspended at its awaits              *)

\* MaxTasks:  async handlers of one client in flight together
\* MaxClicks: user actions and auth events of one run
MaxTasks == 2
MaxClicks == 3

\* session === null, and the Session objects auth events deliver.
NoSession == "null"
Sessions  == {"sessionA", "sessionB"}
\* useState<string | null>(null)
NoSelection == "null"

\* What the forms submit: SupplierInputs, and a form left without a name.
FormInputs == {[name |-> "bolt", is_merchandise |-> TRUE],
               [name |-> "", is_merchandise |-> FALSE]}
\* new Date().toISOString() at a save of the App.
Now == "2024-02-20T09:00:00Z"
\* Documents the user picks for an import.
PickedDocs == {Doc("ok", ArrayField(<<Supplier("s1", "bolt", TRUE)>>),
                         ArrayField(<<Invoice("i1", "s1", "2024-02-20T09:00:00Z", ChargeOnly)>>)),
               Doc("error", MissingField, MissingField)}

NoSupplierArg == Supplier(Undefined, "", FALSE)
NoInvoiceArg  == Invoice(Undefined, "", Undefined, RowsMissing)

\* A handler suspended at an await: h the handler, pc the call awaited,
\* session and selected the values its closure captured, id / supplier /
\* invoice / doc its argument, s and i what Promise.all has collected.
Task(h, pcAt, id, sup, inv, doc) ==
    [h |-> h, pc |-> pcAt, session |-> session, selected |-> selectedSupplierId,
     id |-> id, supplier |-> sup, invoice |-> inv, doc |-> doc,
     s |-> << >>, sState |-> "none", i |-> << >>, iState |-> "none"]
NoTask ==
    [h |-> "none", pc |-> "none", session |-> NoSession, selected |-> NoSelection,
     id |-> "", supplier |-> NoSupplierArg, invoice |-> NoInvoiceArg, doc |-> NoDoc,
     s |-> << >>, sState |-> "none", i |-> << >>, iState |-> "none"]

Slots     == 1..MaxTasks
FreeSlots == {t \in Slots : tasks[t].h = "none"}
FirstFree == CHOOSE t \in FreeSlots : \A u \in FreeSlots : t <= u
SecondFree == CHOOSE t \in FreeSlots \ {FirstFree} :
                 \A u \in FreeSlots \ {FirstFree} : t <= u

\* { isOpen, supplierId, invoice }
Editing(isOpen, sid, inv) == [isOpen |-> isOpen, supplierId |-> sid, invoice |-> inv]
\* invoice: null is NoInvoiceArg.
NoEditing == Editing(FALSE, "", NoInvoiceArg)
Refreshed(sState, iState) == [suppliers |-> sState, invoices |-> iState]

\* The loading overlay (fixed inset-0 z-[60], part_001:252, :969) lies over
\* the page and the modals (z-50), a modal over the page: what a pointer
\* can reach.
ModalReachable == session # NoSession /\ ~isLoading
\* The new-supplier modal stays open, its button disabled, until its
\* saveSupplier has resumed (SupplierFormModal.tsx:26-31, :104).
isSaving == \E t \in Slots : tasks[t].h = "handleSubmit"
PageReachable == ModalReachable /\ ~editingInvoice.isOpen /\ ~isSaving

\* The id the database gives a row saved without one: one no row of the
\* table has.
gen_random_uuid(prefix, table) ==
    prefix \o ToString(CHOOSE k \in 1..(Cardinality(table) + 1) :
                          /\ (prefix \o ToString(k)) \notin Ids(table)
                          /\ \A m \in 1..(k - 1) : (prefix \o ToString(m)) \in Ids(table))

parkedVars == <<gatewayVars, calcVars, enriched, viewVars, tabVars>>

\* One more user action or auth event.
Click == clicks < MaxClicks /\ clicks' = clicks + 1

\* const [s, i] = await Promise.all([getSuppliers(), getInvoices()])
PromiseAll(task) == [task EXCEPT !.pc = "Promise.all", !.sState = "pending",
                                 !.iState = "pending"]

\* The rest of a handler once its last await has resumed.
handler_rest(t) ==
    /\ selectedSupplierId' =
          (IF \/ tasks[t].h = "confirmDeleteAllSuppliers"
              \/ tasks[t].h = "confirmDeleteSupplier" /\ tasks[t].selected = tasks[t].id
           THEN NoSelection ELSE selectedSupplierId)
    /\ tasks' = [tasks EXCEPT ![t] = NoTask]

\* refreshData() called by the handler of slot t (part_001:111-123): without
\* a session in the handler's closure it returns at once.
refreshData(t) ==
    IF tasks[t].session = NoSession
    THEN /\ handler_rest(t)
         /\ isLoading' = (IF tasks[t].h = "handleSubmit" THEN isLoading ELSE FALSE)
    ELSE /\ isLoading' = TRUE
         /\ tasks' = [tasks EXCEPT ![t] = PromiseAll(@)]
         /\ UNCHANGED selectedSupplierId

\* getSuppliers() of a refresh comes back.
refreshData_getSuppliers ==
    /\ \E t \in Slots :
        /\ tasks[t].pc = "Promise.all" /\ tasks[t].sState = "pending"
        /\ \E ok \in BOOLEAN : \E q \in getSuppliers(ok) :
            tasks' = [tasks EXCEPT ![t].s = q,
                                   ![t].sState = IF ok THEN "ok" ELSE "error"]
    /\ UNCHANGED <<dbSuppliers, dbInvoices, suppliers, invoices, session, isLoading,
                   selectedSupplierId, editingInvoice, modalRows, refreshed, clicks, parkedVars>>

\* getInvoices() of a refresh comes back.
refreshData_getInvoices ==
    /\ \E t \in Slots :
        /\ tasks[t].pc = "Promise.all" /\ tasks[t].iState = "pending"
        /\ \E ok \in BOOLEAN : \E q \in getInvoices(ok) :
            tasks' = [tasks EXCEPT ![t].i = q,
                                   ![t].iState = IF ok THEN "ok" ELSE "error"]
    /\ UNCHANGED <<dbSuppliers, dbInvoices, suppliers, invoices, session, isLoading,
                   selectedSupplierId, editingInvoice, modalRows, refreshed, clicks, parkedVars>>

\* A slip: an empty result does not replace the list on screen.
setList_keepIfEmpty(prev, got) == IF got = << >> THEN prev ELSE got
\* setSuppliers(s) / setInvoices(i)
setList(prev, got) == got

\* Both reads are back: the lists are set, finally clears the flag, and the
\* handler that awaited the refresh runs to its end.
refreshData_finally ==
    /\ \E t \in Slots :
        /\ tasks[t].pc = "Promise.all"
        /\ tasks[t].sState # "pending" /\ tasks[t].iState # "pending"
        /\ suppliers' = setList(suppliers, tasks[t].s)
        /\ invoices' = setList(invoices, tasks[t].i)
        /\ refreshed' = Refreshed(tasks[t].sState, tasks[t].iState)
        /\ handler_rest(t)
        /\ isLoading' = FALSE
    /\ UNCHANGED <<dbSuppliers, dbInvoices, session, editingInvoice, modalRows, clicks, parkedVars>>

\* onAuthStateChange delivers a session (sign in, token refresh): setSession,
\* and the effect on [session] calls refreshData (part_001:89-108, :125-129).
onAuthStateChange ==
    /\ Click
    /\ FreeSlots # {}
    /\ \E sess \in Sessions \ {session} :
        /\ session' = sess
        /\ tasks' = [tasks EXCEPT ![FirstFree] =
                        PromiseAll([Task("refreshData", "", "", NoSupplierArg,
                                         NoInvoiceArg, NoDoc) EXCEPT !.session = sess])]
    /\ isLoading' = TRUE
    /\ UNCHANGED <<dbSuppliers, dbInvoices, suppliers, invoices, selectedSupplierId,
                   editingInvoice, modalRows, refreshed, parkedVars>>

\* handleLogout (part_001:243-249) up to await supabase.auth.signOut().
handleLogout ==
    /\ Click
    /\ PageReachable
    /\ FreeSlots # {}
    /\ suppliers' = << >>
    /\ invoices' = << >>
    /\ selectedSupplierId' = NoSelection
    /\ tasks' = [tasks EXCEPT ![FirstFree] =
                    Task("handleLogout", "signOut", "", NoSupplierArg, NoInvoiceArg, NoDoc)]
    /\ UNCHANGED <<dbSuppliers, dbInvoices, session, isLoading, editingInvoice, modalRows,
                   refreshed, parkedVars>>

\* signOut is done: onAuthStateChange delivers SIGNED_OUT, setSession(null).
signOut ==
    /\ \E t \in Slots :
        /\ tasks[t].pc = "signOut"
        /\ tasks' = [tasks EXCEPT ![t] = NoTask]
    /\ session' = NoSession
    /\ UNCHANGED <<dbSuppliers, dbInvoices, suppliers, invoices, isLoading,
                   selectedSupplierId, editingInvoice, modalRows, refreshed, clicks, parkedVars>>

\* A supplier of the list is clicked (setSelectedSupplierId).
selectSupplier ==
    /\ Click
    /\ PageReachable
    /\ \E k \in DOMAIN suppliers :
        /\ suppliers[k].id # selectedSupplierId
        /\ selectedSupplierId' = suppliers[k].id
    /\ UNCHANGED <<dbSuppliers, dbInvoices, suppliers, invoices, session, isLoading,
                   tasks, editingInvoice, modalRows, refreshed, parkedVars>>

\* A user action that sets the flag and suspends at its first gateway call.
startHandler(task) ==
    /\ Click
    /\ FreeSlots # {}
    /\ isLoading' = TRUE
    /\ tasks' = [tasks EXCEPT ![FirstFree] = task]
    /\ UNCHANGED <<dbSuppliers, dbInvoices, suppliers, invoices, session,
                   selectedSupplierId, editingInvoice, modalRows, refreshed, parkedVars>>

\* confirmDeleteInvoice (part_001:154-170) up to await deleteInvoice(...).
confirmDeleteInvoice ==
    /\ PageReachable
    /\ \E k \in DOMAIN invoices :
        startHandler(Task("confirmDeleteInvoice", "deleteInvoice", invoices[k].id,
                          NoSupplierArg, NoInvoiceArg, NoDoc))

\* confirmDeleteSupplier (part_001:173-185) up to await deleteSupplier(...).
confirmDeleteSupplier ==
    /\ PageReachable
    /\ \E k \in DOMAIN suppliers :
        startHandler(Task("confirmDeleteSupplier", "deleteSupplier", suppliers[k].id,
                          NoSupplierArg, NoInvoiceArg, NoDoc))

\* confirmDeleteAllSuppliers (part_001:187-195) up to the first await of
\* deleteAllSuppliers().
confirmDeleteAllSuppliers ==
    /\ PageReachable
    /\ startHandler(Task("confirmDeleteAllSuppliers", "deleteInvoices", "",
                         NoSupplierArg, NoInvoiceArg, NoDoc))

\* handleExportData (part_001:198-211) up to the first await of exportDatabase().
handleExportData ==
    /\ PageReachable
    /\ startHandler(Task("handleExportData", "getSuppliers", "",
                         NoSupplierArg, NoInvoiceArg, NoDoc))

\* handleFileChange / reader.onload (part_001:219-241): a document that
\* importDatabase rejects before its first await returns false in the same
\* turn, the flag set and cleared with nothing in between.
handleFileChange ==
    /\ PageReachable
    /\ \E doc \in PickedDocs :
        IF Validated(doc)
        THEN startHandler(Task("handleFileChange", "deleteInvoices", "",
                               NoSupplierArg, NoInvoiceArg, doc))
        ELSE UNCHANGED vars

\* SupplierDetailTab.handleUpdateSupplier (part_001:385-393) up to await
\* saveSupplier(formData).
handleUpdateSupplier ==
    /\ PageReachable
    /\ selectedSupplierId # NoSelection
    /\ \E inp \in FormInputs :
        startHandler(Task("handleUpdateSupplier", "saveSupplier", "",
                          Supplier(selectedSupplierId, inp.name, inp.is_merchandise),
                          NoInvoiceArg, NoDoc))

\* A slip: the form is saved whatever its name.
handleSubmit_unguarded(inp) ==
    /\ Click
    /\ PageReachable
    /\ FreeSlots # {}
    /\ tasks' = [tasks EXCEPT ![FirstFree] =
                    Task("handleSubmit", "saveSupplier", "",
                         Supplier(Undefined, inp.name, inp.is_merchandise),
                         NoInvoiceArg, NoDoc)]
    /\ UNCHANGED <<dbSuppliers, dbInvoices, suppliers, invoices, session, isLoading,
                   selectedSupplierId, editingInvoice, modalRows, refreshed, parkedVars>>
\* SupplierFormModal.handleSubmit (SupplierFormModal.tsx:23-33) with
\* formData = inp, up to await saveSupplier(formData): nothing without a name.
handleSubmit(inp) ==
    /\ Click
    /\ PageReachable
    /\ IF inp.name # ""
       THEN /\ FreeSlots # {}
            /\ tasks' = [tasks EXCEPT ![FirstFree] =
                            Task("handleSubmit", "saveSupplier", "",
                                 Supplier(Undefined, inp.name, inp.is_merchandise),
                                 NoInvoiceArg, NoDoc)]
       ELSE UNCHANGED tasks
    /\ UNCHANGED <<dbSuppliers, dbInvoices, suppliers, invoices, session, isLoading,
                   selectedSupplierId, editingInvoice, modalRows, refreshed, parkedVars>>
SupplierFormModal == \E inp \in FormInputs : handleSubmit(inp)

\* await saveSupplier(...) resumes (storage.ts:46-61); handleUpdateSupplier
\* awaits the refresh, handleSubmit calls onSave() and ends.
App_saveSupplier ==
    /\ \E t \in Slots :
        /\ tasks[t].pc = "saveSupplier"
        /\ \E ok \in BOOLEAN :
           LET rid == IF tasks[t].supplier.id = Undefined
                      THEN gen_random_uuid("s", dbSuppliers)
                      ELSE tasks[t].supplier.id
           IN
            dbSuppliers' = IF ok THEN Upsert(dbSuppliers, [tasks[t].supplier EXCEPT !.id = rid])
                                 ELSE dbSuppliers
        /\ IF tasks[t].h = "handleSubmit" /\ tasks[t].session # NoSession
           THEN /\ isLoading' = TRUE
                /\ tasks' = [tasks EXCEPT ![t] = PromiseAll([@ EXCEPT !.h = "refreshData"])]
                /\ UNCHANGED selectedSupplierId
           ELSE refreshData(t)
    /\ UNCHANGED <<dbInvoices, suppliers, invoices, session, editingInvoice, modalRows,
                   refreshed, clicks, parkedVars>>

\* await deleteSupplier(...) resumes (storage.ts:63-72).
App_deleteSupplier ==
    /\ \E t \in Slots :
        /\ tasks[t].pc = "deleteSupplier"
        /\ \E ok \in BOOLEAN :
            /\ dbSuppliers' = IF ok THEN {r \in dbSuppliers : r.id # tasks[t].id}
                                    ELSE dbSuppliers
            /\ dbInvoices' = IF ok THEN OnDeleteCascade(dbInvoices, {tasks[t].id})
                                   ELSE dbInvoices
        /\ refreshData(t)
    /\ UNCHANGED <<suppliers, invoices, session, editingInvoice, modalRows, refreshed, clicks, parkedVars>>

\* await deleteInvoice(...) resumes (storage.ts:105-112): the editor is
\* closed, then the refresh.
App_deleteInvoice ==
    /\ \E t \in Slots :
        /\ tasks[t].pc = "deleteInvoice"
        /\ \E ok \in BOOLEAN :
            dbInvoices' = IF ok THEN delete_eq_id(dbInvoices, tasks[t].id) ELSE dbInvoices
        /\ refreshData(t)
    /\ editingInvoice' = [editingInvoice EXCEPT !.isOpen = FALSE, !.invoice = NoInvoiceArg]
    /\ UNCHANGED <<dbSuppliers, suppliers, invoices, session, modalRows, refreshed, clicks, parkedVars>>

\* deleteAllSuppliers, first await (storage.ts:77), of the full wipe or of
\* an import.
App_deleteAllSuppliers_invoices ==
    /\ \E t \in Slots :
        /\ tasks[t].pc = "deleteInvoices"
        /\ \E ok \in BOOLEAN :
            dbInvoices' = IF ok THEN {i \in dbInvoices : i.id = ZeroUuid} ELSE dbInvoices
        /\ tasks' = [tasks EXCEPT ![t].pc = "deleteSuppliers"]
    /\ UNCHANGED <<dbSuppliers, suppliers, invoices, session, isLoading,
                   selectedSupplierId, editingInvoice, modalRows, refreshed, clicks, parkedVars>>

\* deleteAllSuppliers, second await (storage.ts:78): the wipe goes on to
\* its refresh, the import to its inserts.
App_deleteAllSuppliers_suppliers ==
    /\ \E t \in Slots :
        /\ tasks[t].pc = "deleteSuppliers"
        /\ \E ok \in BOOLEAN :
            /\ dbSuppliers' = IF ok THEN {r \in dbSuppliers : r.id = ZeroUuid}
                                    ELSE dbSuppliers
            /\ dbInvoices' = IF ok THEN OnDeleteCascade(dbInvoices, Ids(dbSuppliers) \ {ZeroUuid})
                                   ELSE dbInvoices
        /\ IF tasks[t].h = "handleFileChange"
           THEN /\ tasks' = [tasks EXCEPT ![t].pc = "insertSuppliers"]
                /\ UNCHANGED <<isLoading, selectedSupplierId>>
           ELSE refreshData(t)
    /\ UNCHANGED <<suppliers, invoices, session, editingInvoice, modalRows, refreshed, clicks, parkedVars>>

\* A slip: the failure branch returns without clearing the flag.
importFailed_stuck(t) ==
    /\ UNCHANGED isLoading
    /\ tasks' = [tasks EXCEPT ![t] = NoTask]
    /\ UNCHANGED selectedSupplierId
\* importDatabase returned false: the alert, then setIsLoading(false); no
\* refresh (part_001:233-236).
importFailed(t) ==
    /\ isLoading' = FALSE
    /\ tasks' = [tasks EXCEPT ![t] = NoTask]
    /\ UNCHANGED selectedSupplierId

\* importDatabase: insert(data.suppliers) (storage.ts:143-148).
App_importDatabase_insertSuppliers ==
    /\ \E t \in Slots :
        /\ tasks[t].pc = "insertSuppliers"
        /\ LET items == tasks[t].doc.suppliers.items
           IN  \E ok \in BOOLEAN :
               LET inserted == ok /\ PrimaryKeyOk(dbSuppliers, items)
               IN  /\ dbSuppliers' = IF inserted THEN dbSuppliers \cup Range(items)
                                                 ELSE dbSuppliers
                   /\ IF inserted
                      THEN /\ tasks' = [tasks EXCEPT ![t].pc = "insertInvoices"]
                           /\ UNCHANGED <<isLoading, selectedSupplierId>>
                      ELSE importFailed(t)
    /\ UNCHANGED <<dbInvoices, suppliers, invoices, session, editingInvoice, modalRows,
                   refreshed, clicks, parkedVars>>

\* importDatabase: insert(data.invoices) (storage.ts:151-156); on success
\* handleFileChange awaits the refresh.
App_importDatabase_insertInvoices ==
    /\ \E t \in Slots :
        /\ tasks[t].pc = "insertInvoices"
        /\ LET items == tasks[t].doc.invoices.items
           IN  \E ok \in BOOLEAN :
               LET inserted == /\ ok
                               /\ PrimaryKeyOk(dbInvoices, items)
                               /\ ForeignKeyOk(items, dbSuppliers)
               IN  /\ dbInvoices' = IF inserted THEN dbInvoices \cup Range(items)
                                                ELSE dbInvoices
                   /\ IF inserted THEN refreshData(t) ELSE importFailed(t)
    /\ UNCHANGED <<dbSuppliers, suppliers, invoices, session, editingInvoice, modalRows,
                   refreshed, clicks, parkedVars>>

\* exportDatabase: await getSuppliers() resumes (storage.ts:117).
App_exportDatabase_getSuppliers ==
    /\ \E t \in Slots :
        /\ tasks[t].pc = "getSuppliers"
        /\ \E ok \in BOOLEAN : \E q \in getSuppliers(ok) :
            tasks' = [tasks EXCEPT ![t].pc = "getInvoices", ![t].s = q]
    /\ UNCHANGED <<dbSuppliers, dbInvoices, suppliers, invoices, session, isLoading,
                   selectedSupplierId, editingInvoice, modalRows, refreshed, clicks, parkedVars>>

\* exportDatabase: await getInvoices() resumes (storage.ts:118); the file
\* is offered for download and the flag cleared.
App_exportDatabase_getInvoices ==
    /\ \E t \in Slots :
        /\ tasks[t].pc = "getInvoices"
        /\ tasks' = [tasks EXCEPT ![t] = NoTask]
    /\ isLoading' = FALSE
    /\ UNCHANGED <<dbSuppliers, dbInvoices, suppliers, invoices, session,
                   selectedSupplierId, editingInvoice, modalRows, refreshed, clicks, parkedVars>>

---------------------------------------------------------------------------
(* The invoice editor (part_002:129-187) and the places that open it       *)

\* MaxEditorRows: longest row list the editor is taken to
MaxEditorRows == 3

\* crypto.randomUUID() for a new row: an id no row of the list has.
EditorRowIds == [k \in 1..MaxEditorRows |-> "r" \o ToString(k)]
randomUUID(list) ==
    EditorRowIds[CHOOSE k \in DOMAIN EditorRowIds :
                    /\ EditorRowIds[k] \notin {list[j].id : j \in DOMAIN list}
                    /\ \A m \in 1..(k - 1) : EditorRowIds[m] \in {list[j].id : j \in DOMAIN list}]
\* new Date().toISOString().split('T')[0]
Today == "2024-02-20"
\* Values typed into a credit / debit field (parseFloat(...) || 0).
TypedAmounts == {0, 100}

\* emptyRow()
emptyRow(id) == Row(id, Today, Num(0), Num(0))
RowIdsOf(list) == {list[k].id : k \in DOMAIN list}

\* A slip: the editor opened on the supplier of the detail tab.
handleInvoiceClick_selected(inv) == Editing(TRUE, selectedSupplierId, inv)
\* setEditingInvoice({ isOpen: true, supplierId: inv.supplier_id, invoice: inv })
\* (part_001:459 detail tab, :525 dashboard, :937 history).
handleInvoiceClick_state(inv) == Editing(TRUE, inv.supplier_id, inv)

\* An invoice shown in some tab is clicked; the effect on [isOpen,
\* existingInvoice] copies its rows (part_002:143-151).
handleInvoiceClick ==
    /\ Click
    /\ PageReachable
    /\ \E k \in DOMAIN invoices :
        /\ find(suppliers, invoices[k].supplier_id) # << >>
        /\ invoices[k].rows.kind = "array"
        /\ editingInvoice' = handleInvoiceClick_state(invoices[k])
        /\ modalRows' = invoices[k].rows.items
    /\ UNCHANGED <<dbSuppliers, dbInvoices, suppliers, invoices, session, isLoading,
                   tasks, selectedSupplierId, refreshed, parkedVars>>

\* "Nuova registrazione" of the detail tab (part_001:447): one empty row.
newInvoiceClick ==
    /\ Click
    /\ PageReachable
    /\ find(suppliers, selectedSupplierId) # << >>
    /\ editingInvoice' = Editing(TRUE, selectedSupplierId, NoInvoiceArg)
    /\ modalRows' = <<emptyRow(randomUUID(<< >>))>>
    /\ UNCHANGED <<dbSuppliers, dbInvoices, suppliers, invoices, session, isLoading,
                   tasks, selectedSupplierId, refreshed, parkedVars>>

\* onClose (part_001:1015).
InvoiceModal_onClose ==
    /\ Click
    /\ ModalReachable /\ editingInvoice.isOpen
    /\ editingInvoice' = [editingInvoice EXCEPT !.isOpen = FALSE]
    /\ UNCHANGED <<dbSuppliers, dbInvoices, suppliers, invoices, session, isLoading,
                   tasks, selectedSupplierId, modalRows, refreshed, parkedVars>>

editorFrame == <<dbSuppliers, dbInvoices, suppliers, invoices, session, isLoading,
                 tasks, selectedSupplierId, editingInvoice, refreshed, parkedVars>>

\* addRow (part_002:159)
addRow ==
    /\ Click
    /\ ModalReachable /\ editingInvoice.isOpen
    /\ Len(modalRows) < MaxEditorRows
    /\ modalRows' = Append(modalRows, emptyRow(randomUUID(modalRows)))
    /\ UNCHANGED editorFrame

\* prev.filter(r => r.id !== id)
RECURSIVE filterOut(_, _)
filterOut(list, id) ==
    IF list = << >> THEN << >>
    ELSE (IF Head(list).id # id THEN <<Head(list)>> ELSE << >>) \o filterOut(Tail(list), id)

\* removeRow(id) (part_002:161-165), from the bin of the row with that id.
removeRow(id) ==
    /\ Click
    /\ ModalReachable /\ editingInvoice.isOpen
    /\ modalRows' = IF Len(modalRows) > 1 THEN filterOut(modalRows, id) ELSE modalRows
    /\ UNCHANGED editorFrame
removeRowClick == \E id \in RowIdsOf(modalRows) : removeRow(id)

\* handleRowChange(id, field, value) (part_002:153-157) for the two amounts.
handleRowChange ==
    /\ Click
    /\ ModalReachable /\ editingInvoice.isOpen
    /\ \E id \in RowIdsOf(modalRows), field \in {"credit", "debit"}, n \in TypedAmounts :
        /\ modalRows' = [k \in DOMAIN modalRows |->
                      IF modalRows[k].id = id
                      THEN (IF field = "credit" THEN [modalRows[k] EXCEPT !.credit = Num(n)]
                                                ELSE [modalRows[k] EXCEPT !.debit = Num(n)])
                      ELSE modalRows[k]]
        /\ modalRows' # modalRows
    /\ UNCHANGED editorFrame

\* rows.map(r => ({ ...r, credit: Number(r.credit), debit: Number(r.debit) }))
cleanRows(list) ==
    [k \in DOMAIN list |-> [list[k] EXCEPT !.credit = Num(Number(list[k].credit)),
                                           !.debit = Num(Number(list[k].debit))]]

\* The object handleSave passes to saveInvoice (part_002:178-183).
handleSave_invoice ==
    Invoice(editingInvoice.invoice.id, editingInvoice.supplierId,
            editingInvoice.invoice.creation_date, RowsArray(cleanRows(modalRows)))

\* InvoiceModal.handleSave (part_002:171-187): saveInvoice(...) is called and
\* not awaited, onSave() starts refreshData, onClose() closes the editor.
InvoiceModal_handleSave ==
    /\ Click
    /\ ModalReachable /\ editingInvoice.isOpen
    /\ Cardinality(FreeSlots) >= 2
    /\ tasks' = [tasks EXCEPT
                    ![FirstFree] = Task("saveInvoice", "upsertInvoice", "", NoSupplierArg,
                                        handleSave_invoice, NoDoc),
                    ![SecondFree] = PromiseAll(Task("refreshData", "", "", NoSupplierArg,
                                                    NoInvoiceArg, NoDoc))]
    /\ isLoading' = TRUE
    /\ editingInvoice' = [editingInvoice EXCEPT !.isOpen = FALSE]
    /\ UNCHANGED <<dbSuppliers, dbInvoices, suppliers, invoices, session,
                   selectedSupplierId, modalRows, refreshed, parkedVars>>

\* The upsert of a saveInvoice nobody awaits comes back (storage.ts:81-103).
App_saveInvoice ==
    /\ \E t \in Slots :
        /\ tasks[t].pc = "upsertInvoice"
        /\ \E ok \in BOOLEAN :
            LET rid == IF tasks[t].invoice.id = Undefined
                       THEN gen_random_uuid("i", dbInvoices)
                       ELSE tasks[t].invoice.id
                payload == [tasks[t].invoice EXCEPT
                               !.id = rid,
                               !.creation_date = payload_creation_date(@, Now)]
                stored  == ok /\ ForeignKeyOk(<<payload>>, dbSuppliers)
            IN  dbInvoices' = IF stored THEN Upsert(dbInvoices, payload) ELSE dbInvoices
        /\ tasks' = [tasks EXCEPT ![t] = NoTask]
    /\ UNCHANGED <<dbSuppliers, suppliers, invoices, session, isLoading,
                   selectedSupplierId, editingInvoice, modalRows, refreshed, clicks, parkedVars>>

---------------------------------------------------------------------------
(* Two editors on one record: two browser tabs, each with the form it      *)
(* loaded, saving through saveSupplier / saveInvoice                       *)

Tabs == {1, 2}
\* What a tab can type into the supplier form, and the rows an invoice
\* editor can hold when it saves.
TabSupplierForms == SupplierInputs
TabInvoiceRows   == {ChargeOnly, Settled}

\* A tab: the table and id of the record it edits, its form (the full
\* record it will save), where it stands, and what its save returned.
Tab(kind, form, at, ret, ok) == [kind |-> kind, form |-> form, pc |-> at, ret |-> ret, ok |-> ok]
ClosedSupplierTab == Tab("supplier", NoSupplierArg, "closed", "none", FALSE)

\* The form a tab holds after opening the stored record `rec` and typing.
SupplierForms(rec) == {Supplier(rec.id, inp.name, inp.is_merchandise) : inp \in TabSupplierForms}
InvoiceForms(rec)  == {Invoice(rec.id, rec.supplier_id, rec.creation_date, r) : r \in TabInvoiceRows}

\* A tab opens a stored supplier (handleUpdateSupplier's formData) or a
\* stored invoice (the editor), edits, and calls the save (storage.ts:46-61,
\* 81-103): the payload is the whole form.
Tab_save(tab) ==
    /\ tabs[tab].pc = "closed"
    /\ \/ \E rec \in dbSuppliers : \E form \in SupplierForms(rec) :
            tabs' = [tabs EXCEPT ![tab] = Tab("supplier", form, "upsert", "none", FALSE)]
       \/ \E rec \in dbInvoices : \E form \in InvoiceForms(rec) :
            tabs' = [tabs EXCEPT ![tab] = Tab("invoice", form, "upsert", "none", FALSE)]
    /\ UNCHANGED <<dbSuppliers, dbInvoices, applied, gatewayVars, calcVars, enrichVars,
                   session, isLoading, tasks, selectedSupplierId, editingInvoice,
                   modalRows, refreshed, clicks>>

\* The database applies the upsert of a tab and the save returns the row,
\* or null when the call failed.
Tab_upsert(tab) ==
    /\ tabs[tab].pc = "upsert"
    /\ \E ok \in BOOLEAN :
        LET form   == tabs[tab].form
            stored == ok /\ (tabs[tab].kind = "invoice" => ForeignKeyOk(<<form>>, dbSuppliers))
        IN  /\ dbSuppliers' = IF stored /\ tabs[tab].kind = "supplier"
                              THEN Upsert(dbSuppliers, form) ELSE dbSuppliers
            /\ dbInvoices' = IF stored /\ tabs[tab].kind = "invoice"
                             THEN Upsert(dbInvoices, form) ELSE dbInvoices
            /\ tabs' = [tabs EXCEPT ![tab].pc = "saved",
                                    ![tab].ret = IF stored THEN "row" ELSE "null",
                                    ![tab].ok = ok]
            /\ applied' = IF stored THEN Append(applied, tab) ELSE applied
    /\ UNCHANGED <<gatewayVars, calcVars, enrichVars, session, isLoading, tasks,
                   selectedSupplierId, editingInvoice, modalRows, refreshed, clicks>>

\* The tabs where a specification does not exercise them.
ParkedTabs ==
    /\ tabs = [tab \in Tabs |-> ClosedSupplierTab]
    /\ applied = << >>

\* The App's variables where a specification does not exercise them.
ParkedApp ==
    /\ session = NoSession
    /\ isLoading = FALSE
    /\ tasks = [t \in Slots |-> NoTask]
    /\ selectedSupplierId = NoSelection
    /\ editingInvoice = NoEditing
    /\ modalRows = << >>
    /\ refreshed = Refreshed("none", "none")
    /\ clicks = 0
    /\ ParkedTabs

---------------------------------------------------------------------------

Init ==
    /\ dbSuppliers = {}
    /\ dbInvoices = {}
    /\ op = "none"
    /\ pc = "idle"
    /\ data = NoDoc
    /\ file = NoDoc
    /\ done = Done("none", "", "void")
    /\ log = << >>
    /\ expSnap = NoStore
    /\ before = NoStore
    /\ calcInvoice = Invoice("i1", "s1", "2024-01-10T09:00:00Z", RowsMissing)
    /\ calcBalance = 0
    /\ calcInitial = 0
    /\ calcPrev = Calc("parked", 0, 0, 0, 0)
    /\ suppliers = << >>
    /\ invoices = << >>
    /\ enriched = Enriched("parked", << >>)
    /\ filters = NoFilters
    /\ timeZone = "Europe/Rome"
    /\ view = NoView
    /\ ParkedApp

Next ==
    \/ saveSupplier
    \/ deleteSupplier
    \/ saveInvoice
    \/ deleteInvoice
    \/ deleteAllSuppliers_invoices
    \/ deleteAllSuppliers_suppliers
    \/ exportDatabase_getSuppliers
    \/ exportDatabase_getInvoices
    \/ discardBackup
    \/ importDatabase_start
    \/ importDatabase_insertSuppliers
    \/ importDatabase_insertInvoices

Spec == Init /\ [][Next]_vars

\* The balance engine on drawn invoices; the store stays empty.
InitCalc ==
    /\ dbSuppliers = {} /\ dbInvoices = {}
    /\ op = "none" /\ pc = "idle"
    /\ data = NoDoc /\ file = NoDoc
    /\ done = Done("none", "", "void")
    /\ log = << >>
    /\ expSnap = NoStore
    /\ before = NoStore
    /\ calcInvoice \in CalcInvoices
    /\ calcBalance = 0
    /\ calcInitial = 0
    /\ calcPrev = Calc("loaded", 0, 0, 0, 0)
    /\ suppliers = << >>
    /\ invoices = << >>
    /\ enriched = Enriched("parked", << >>)
    /\ filters = NoFilters
    /\ timeZone = "Europe/Rome"
    /\ view = NoView
    /\ ParkedApp

NextCalc ==
    \/ calculate
    \/ appendPayment

SpecCalc == InitCalc /\ [][NextCalc]_vars

\* Enrichment on drawn in-memory lists; the store stays empty.
InitEnrich ==
    /\ dbSuppliers = {} /\ dbInvoices = {}
    /\ op = "none" /\ pc = "idle"
    /\ data = NoDoc /\ file = NoDoc
    /\ done = Done("none", "", "void")
    /\ log = << >>
    /\ expSnap = NoStore
    /\ before = NoStore
    /\ calcInvoice = Invoice("i1", "s1", "2024-01-10T09:00:00Z", RowsMissing)
    /\ calcBalance = 0
    /\ calcInitial = 0
    /\ calcPrev = Calc("parked", 0, 0, 0, 0)
    /\ suppliers \in {q \in SeqsUpTo(MemSuppliers, MaxMemLen) :
                        DistinctIds(q) /\ OrderedByName(q)}
    /\ invoices \in {q \in SeqsUpTo(MemInvoices, MaxMemLen) : DistinctIds(q)}
    /\ enriched = Enriched("stale", << >>)
    /\ filters = NoFilters
    /\ timeZone = "Europe/Rome"
    /\ view = NoView
    /\ ParkedApp

NextEnrich == render

SpecEnrich == InitEnrich /\ [][NextEnrich]_vars

\* The tabs on drawn in-memory lists, filters and time zone.
InitView ==
    /\ dbSuppliers = {} /\ dbInvoices = {}
    /\ op = "none" /\ pc = "idle"
    /\ data = NoDoc /\ file = NoDoc
    /\ done = Done("none", "", "void")
    /\ log = << >>
    /\ expSnap = NoStore
    /\ before = NoStore
    /\ calcInvoice = Invoice("i1", "s1", "2024-01-10T09:00:00Z", RowsMissing)
    /\ calcBalance = 0
    /\ calcInitial = 0
    /\ calcPrev = Calc("parked", 0, 0, 0, 0)
    /\ suppliers = ViewSuppliers
    /\ invoices \in {q \in SeqsUpTo(ViewInvoices, MaxViewLen) : DistinctIds(q)}
    /\ enriched = Enriched("stale", << >>)
    /\ filters \in ViewFilters
    /\ timeZone \in TimeZones
    /\ view = NoView
    /\ ParkedApp

NextView ==
    \/ render
    \/ ActiveInvoicesTab
    \/ HistoryTab

SpecView == InitView /\ [][NextView]_vars

---------------------------------------------------------------------------
(* Properties of the App and the editor                                    *)

\* No handler of the App is suspended at an await.
Quiescent == \A t \in Slots : tasks[t].h = "none"

\* Both tabs have saved the same record.
BothSaved ==
    /\ \A tab \in Tabs : tabs[tab].pc = "saved"
    /\ tabs[1].kind = tabs[2].kind
    /\ tabs[1].form.id = tabs[2].form.id
\* C23: once two tabs have each saved a full record under the same id, the
\* stored record is exactly the form of the save the database applied last,
\* and each save returned the row unless its own call failed: none is
\* refused because of the other.
C23_LastWriteWins ==
    BothSaved =>
        /\ \A tab \in Tabs : tabs[tab].ret = "row" <=> tabs[tab].ok
        /\ applied # << >> =>
              (IF tabs[1].kind = "supplier"
               THEN {r \in dbSuppliers : r.id = tabs[1].form.id}
                        = {tabs[applied[Len(applied)]].form}
               ELSE {r \in dbInvoices : r.id = tabs[1].form.id}
                        = {tabs[applied[Len(applied)]].form})
\* Two different forms saved under one id, the second tab's applied first.
C23_Witness ==
    /\ BothSaved
    /\ applied = <<2, 1>>
    /\ tabs[1].form # tabs[2].form
    /\ tabs[1].kind = "invoice"
    /\ dbInvoices = {tabs[1].form}

\* The awaits at which a handler has a gateway call in flight, and those
\* of them that write.
GatewayCalls ==
    {"Promise.all", "getSuppliers", "getInvoices", "saveSupplier", "deleteSupplier",
     "deleteInvoice", "deleteInvoices", "deleteSuppliers", "insertSuppliers",
     "insertInvoices", "upsertInvoice"}
MutatingCalls == GatewayCalls \ {"Promise.all", "getSuppliers", "getInvoices"}

\* C24: no step of a user action (a step that delivers no session) issues
\* a gateway call, a write or the reads of a refresh, while a write of
\* another handler of the client is in flight.
C24_OneCallAtATime ==
    [][\A t, u \in Slots :
          ~(/\ t # u
            /\ session' = session
            /\ tasks'[t].pc \in MutatingCalls
            /\ tasks'[u].pc \in GatewayCalls
            /\ tasks'[u].pc # tasks[u].pc)]_vars

\* C21: a read that fails yields the empty list: the refresh that issued it
\* completes, and the in-memory list it sets from that read is empty.
C21_ReadFailureEmptyList ==
    /\ refreshed.suppliers = "error" => suppliers = << >>
    /\ refreshed.invoices = "error" => invoices = << >>
\* A refresh whose supplier read failed and whose invoice read did not.
C21_Witness ==
    /\ Quiescent /\ ~isLoading
    /\ refreshed = Refreshed("error", "ok")
    /\ dbSuppliers # {}
    /\ suppliers = << >>
    /\ invoices # << >>

---------------------------------------------------------------------------

\* Rows of a backup written before rows carried an id.
\* C25: the new-supplier form never has a saveSupplier call in flight for a
\* supplier without a name, and a supplier row that a step adds to the store
\* has a name.
C25_NamedSupplier ==
    /\ [](\A t \in Slots : tasks[t].pc = "saveSupplier" => tasks[t].supplier.name # "")
    /\ [][\A r \in dbSuppliers' : r.id \notin Ids(dbSuppliers) => r.name # ""]_vars
\* The form was submitted without a name: a user action is spent, nothing is
\* in flight, nothing else on screen has changed and the store is as it was.
C25_Witness ==
    /\ clicks = 1 /\ Quiescent /\ ~isLoading
    /\ selectedSupplierId = NoSelection /\ ~editingInvoice.isOpen
    /\ Ids(dbSuppliers) = {"s1", "s2"}
    /\ suppliers \in getSuppliers(TRUE)
    /\ refreshed = Refreshed("ok", "ok")

\* C26: the editor never holds and never saves an empty row sequence: while
\* it is open its row list has a row, and the invoice a step passes to
\* saveInvoice carries the rows of the list, in their order, at least one.
C26_NonEmptyRows ==
    /\ [](editingInvoice.isOpen => modalRows # << >>)
    /\ [][\A t \in Slots :
            tasks'[t].pc = "upsertInvoice" /\ tasks[t].pc # "upsertInvoice"
                => /\ tasks'[t].invoice.rows = RowsArray(cleanRows(modalRows))
                   /\ modalRows # << >>]_vars

\* C27: no step changes the supplier_id of an invoice that stays stored, and
\* a save of an existing invoice that the editor issues carries the
\* supplier_id the stored invoice has, whatever supplier is selected.
C27_SupplierIdKept ==
    /\ [][\A i \in dbInvoices : \A j \in dbInvoices' :
            j.id = i.id => j.supplier_id = i.supplier_id]_vars
    /\ [][\A t \in Slots :
            /\ tasks'[t].pc = "upsertInvoice" /\ tasks[t].pc # "upsertInvoice"
            /\ tasks'[t].invoice.id # Undefined
            => \A i \in dbInvoices :
                  i.id = tasks'[t].invoice.id
                      => tasks'[t].invoice.supplier_id = i.supplier_id]_vars
\* A save of a stored invoice is in flight, issued with another supplier
\* selected in the detail tab.
C27_Witness ==
    \E t \in Slots : \E i \in dbInvoices :
        /\ tasks[t].pc = "upsertInvoice"
        /\ tasks[t].invoice.id = i.id
        /\ tasks[t].invoice.supplier_id = i.supplier_id
        /\ tasks[t].selected # NoSelection
        /\ tasks[t].selected # i.supplier_id

\* C28: with a session, nothing in flight and the reads of the last refresh
\* answered without error, the in-memory lists hold exactly the rows of the
\* store.
C28_ViewConsistent ==
    Quiescent /\ session # NoSession /\ refreshed = Refreshed("ok", "ok")
        => /\ {suppliers[k] : k \in DOMAIN suppliers} = dbSuppliers
           /\ {invoices[k] : k \in DOMAIN invoices} = dbInvoices

\* C29: from handleLogout on and as long as there is no session the
\* in-memory lists are empty, and no step issues the reads of a refresh
\* when there is no session.
C29_LoggedOutEmpty ==
    /\ []((session = NoSession \/ \E t \in Slots : tasks[t].h = "handleLogout")
            => suppliers = << >> /\ invoices = << >>)
    /\ [][\A t \in Slots :
            tasks'[t].pc = "Promise.all" /\ tasks[t].pc # "Promise.all"
                => session' # NoSession]_vars

\* C30: whenever no handler and no refresh is in flight the loading flag is
\* false, and a flag that is set is eventually cleared.
C30_LoadingCleared ==
    /\ [](Quiescent => ~isLoading)
    /\ (isLoading ~> ~isLoading)
\* An import has failed after its wipe: nothing is in flight, the flag is
\* cleared, the lists still show what the store held.
C30_Witness ==
    /\ Quiescent /\ ~isLoading /\ session # NoSession
    /\ clicks = 2
    /\ dbSuppliers = {} /\ dbInvoices = {}
    /\ suppliers # << >>

\* Rows of an invoice that came in through an import, which stores the rows
\* of the file as they are (storage.ts:151-154): two rows without an id.
LegacyRows == RowsArray(<<Row(Undefined, "2024-01-10", Num(100), Num(0)),
                          Row(Undefined, "2024-01-20", Num(0), Num(40))>>)
\* What the store holds when the App is opened.
AppInvoices == {Invoice("i1", "s1", "2024-01-10T09:00:00Z", ChargeOnly),
                Invoice("i1", "s2", "2024-01-10T09:00:00Z", LegacyRows)}

\* One client: the App's handlers and the editor against the store.
InitApp ==
    /\ dbSuppliers = {Supplier("s1", "acme", FALSE), Supplier("s2", "bolt", TRUE)}
    /\ dbInvoices = {Invoice("i1", "s1", "2024-01-10T09:00:00Z", ChargeOnly)}
    /\ op = "none" /\ pc = "idle"
    /\ data = NoDoc /\ file = NoDoc
    /\ done = Done("none", "", "void")
    /\ log = << >>
    /\ expSnap = NoStore
    /\ before = NoStore
    /\ calcInvoice = Invoice("i1", "s1", "2024-01-10T09:00:00Z", RowsMissing)
    /\ calcBalance = 0
    /\ calcInitial = 0
    /\ calcPrev = Calc("parked", 0, 0, 0, 0)
    /\ suppliers = << >>
    /\ invoices = << >>
    /\ enriched = Enriched("parked", << >>)
    /\ filters = NoFilters
    /\ timeZone = "Europe/Rome"
    /\ view = NoView
    /\ ParkedApp

NextApp ==
    \/ onAuthStateChange
    \/ refreshData_getSuppliers
    \/ refreshData_getInvoices
    \/ refreshData_finally
    \/ handleLogout
    \/ signOut
    \/ selectSupplier
    \/ confirmDeleteInvoice
    \/ confirmDeleteSupplier
    \/ confirmDeleteAllSuppliers
    \/ handleExportData
    \/ handleFileChange
    \/ handleUpdateSupplier
    \/ SupplierFormModal
    \/ App_saveSupplier
    \/ App_deleteSupplier
    \/ App_deleteInvoice
    \/ App_deleteAllSuppliers_invoices
    \/ App_deleteAllSuppliers_suppliers
    \/ App_importDatabase_insertSuppliers
    \/ App_importDatabase_insertInvoices
    \/ App_exportDatabase_getSuppliers
    \/ App_exportDatabase_getInvoices
    \/ handleInvoiceClick
    \/ newInvoiceClick
    \/ InvoiceModal_onClose
    \/ InvoiceModal_handleSave
    \/ App_saveInvoice

SpecApp == InitApp /\ [][NextApp]_vars

\* A gateway call in flight comes back, with a result or with an error, and
\* the handler awaiting it resumes.
gatewayResponds ==
    \/ refreshData_getSuppliers
    \/ refreshData_getInvoices
    \/ refreshData_finally
    \/ signOut
    \/ App_saveSupplier
    \/ App_deleteSupplier
    \/ App_deleteInvoice
    \/ App_deleteAllSuppliers_invoices
    \/ App_deleteAllSuppliers_suppliers
    \/ App_importDatabase_insertSuppliers
    \/ App_importDatabase_insertInvoices
    \/ App_exportDatabase_getSuppliers
    \/ App_exportDatabase_getInvoices
    \/ App_saveInvoice

\* The client with every call it issues answered in the end.
SpecAppLive == InitApp /\ [][NextApp]_vars /\ WF_vars(gatewayResponds)

\* The editor and the new-supplier form of a client that is signed in and
\* has loaded the store.
InitEditor ==
    /\ dbSuppliers = {Supplier("s1", "acme", FALSE), Supplier("s2", "bolt", TRUE)}
    /\ \E inv \in AppInvoices : dbInvoices = {inv}
    /\ op = "none" /\ pc = "idle"
    /\ data = NoDoc /\ file = NoDoc
    /\ done = Done("none", "", "void")
    /\ log = << >>
    /\ expSnap = NoStore
    /\ before = NoStore
    /\ calcInvoice = Invoice("i1", "s1", "2024-01-10T09:00:00Z", RowsMissing)
    /\ calcBalance = 0
    /\ calcInitial = 0
    /\ calcPrev = Calc("parked", 0, 0, 0, 0)
    /\ suppliers \in getSuppliers(TRUE)
    /\ invoices \in getInvoices(TRUE)
    /\ enriched = Enriched("parked", << >>)
    /\ filters = NoFilters
    /\ timeZone = "Europe/Rome"
    /\ view = NoView
    /\ session \in Sessions
    /\ isLoading = FALSE
    /\ tasks = [t \in Slots |-> NoTask]
    /\ selectedSupplierId = NoSelection
    /\ editingInvoice = NoEditing
    /\ modalRows = << >>
    /\ refreshed = Refreshed("ok", "ok")
    /\ clicks = 0
    /\ ParkedTabs

NextEditor ==
    \/ selectSupplier
    \/ handleInvoiceClick
    \/ newInvoiceClick
    \/ addRow
    \/ removeRowClick
    \/ handleRowChange
    \/ InvoiceModal_onClose
    \/ InvoiceModal_handleSave
    \/ App_saveInvoice
    \/ SupplierFormModal
    \/ App_saveSupplier
    \/ refreshData_getSuppliers
    \/ refreshData_getInvoices
    \/ refreshData_finally

SpecEditor == InitEditor /\ [][NextEditor]_vars

\* Two tabs saving over a store that holds one supplier and one invoice.
InitTabs ==
    /\ dbSuppliers = {Supplier("s1", "acme", FALSE)}
    /\ dbInvoices = {Invoice("i1", "s1", "2024-01-10T09:00:00Z", ChargeOnly)}
    /\ op = "none" /\ pc = "idle"
    /\ data = NoDoc /\ file = NoDoc
    /\ done = Done("none", "", "void")
    /\ log = << >>
    /\ expSnap = NoStore
    /\ before = NoStore
    /\ calcInvoice = Invoice("i1", "s1", "2024-01-10T09:00:00Z", RowsMissing)
    /\ calcBalance = 0
    /\ calcInitial = 0
    /\ calcPrev = Calc("parked", 0, 0, 0, 0)
    /\ suppliers = << >>
    /\ invoices = << >>
    /\ enriched = Enriched("parked", << >>)
    /\ filters = NoFilters
    /\ timeZone = "Europe/Rome"
    /\ view = NoView
    /\ ParkedApp

NextTabs ==
    \/ \E tab \in Tabs : Tab_save(tab)
    \/ \E tab \in Tabs : Tab_upsert(tab)

SpecTabs == InitTabs /\ [][NextTabs]_vars

=============================================================================
